---- MODULE Spec2Model ----
(***************************************************************************)
(* Process-mining explorer: the log simulator (lib/simulate.ts), the       *)
(* mining engine (lib/mining.ts) and the playback (lib/playback.ts).       *)
(*                                                                         *)
(* Numbers.  A JavaScript number that holds a 32-bit word is a pair        *)
(* <<hi, lo>> of 16-bit halves, because a 32-bit word does not fit the     *)
(* model checker's integers.  A timestamp is an ISO string; the model      *)
(* writes <<n>> for the ISO string of the instant n seconds after          *)
(* 2026-02-01T08:00:00Z and <<>> for a string that Date cannot parse.      *)
(* Durations, means and percentiles are IEEE 754 doubles.                  *)
(***************************************************************************)
EXTENDS Integers, Sequences, FiniteSets, TLC

VARIABLES
    args,        \* the arguments of simulatePairedLog
    call,        \* number of calls of simulatePairedLog started so far
    pc,          \* position of the program
    rnd,         \* the state t of the closure returned by mulberry32
    i,           \* loop counter of simulatePairedLog
    toBe,        \* simulatePairedLog: the TO-BE events of the case of this turn
    trace,       \* injectAsIsNoise: the trace being perturbed
    toBeEvents,  \* simulatePairedLog: the TO-BE log under construction
    asIsEvents,  \* simulatePairedLog: the AS-IS log under construction
    returned,    \* what each finished call returned
    events,      \* the log handed to the mining functions
    allowed,     \* the Set<string> of allowed edge keys handed to them
    sortImpl,    \* the engine's order for an inconsistent comparator
    dfg,         \* result of buildDFG
    edgeStats,   \* result of computeEdgeStats
    caseLeadTimes,   \* result of computeCaseLeadTimes
    conf,        \* result of computeConformanceSummary
    devTime,     \* result of computeDeviationTime
    traces,      \* result of computeTraces
    sortImplAsIs,    \* the engine's order for the second log of computeLeadTimeDelta
    leadTimeDelta,   \* result of computeLeadTimeDelta
    nodes,       \* computePlaybackSegments: the nodes of the graph
    playSpeed,   \* computePlaybackSegments: the speed multiplier
    segs,        \* result of computePlaybackSegments
    pos,         \* result of posOnSegment
    rndTwin,     \* the state t of a second closure returned by mulberry32
    word,        \* a 32-bit integer advanced by 0x6d2b79f5 modulo 2^32
    lastDraw,    \* what the last call of each closure returned
    layoutArgs,  \* the arguments of buildFullProcessGraph
    rfNodes,     \* the nodes returned by buildFullProcessGraph
    separated,   \* the calls of resolveOverlaps made on them, one after the other
    tickSegs,    \* ProcessExplorer: the segments of the animation, each with its len
    tickSpeed,   \* ProcessExplorer: the speed of the animation
    progRef      \* ProcessExplorer: progRef.current

simVars  == <<args, call, rnd, i, toBe, trace, toBeEvents, asIsEvents, returned>>
mineVars == <<events, allowed, sortImpl, dfg, edgeStats, caseLeadTimes, conf, devTime>>
deltaVars == <<sortImplAsIs, leadTimeDelta>>
playVars == <<nodes, playSpeed, segs, pos>>
rngVars  == <<rndTwin, word, lastDraw>>
layVars  == <<layoutArgs, rfNodes, separated>>
tickVars == <<tickSegs, tickSpeed, progRef>>
uiVars   == <<layVars, tickVars>>
extVars  == <<traces, deltaVars, playVars, rngVars, uiVars>>
vars     == <<pc, simVars, mineVars, extVars>>

(***************************************************************************)
(* Bounds of the model.                                                    *)
(***************************************************************************)
MaxCases  == 2   \* nCases ranges over 0..MaxCases
MaxLogLen == 2   \* a hand-built log of any events has at most MaxLogLen events
LongLen   == 41  \* the events of the long hand-built log

\* JavaScript's undefined, for an optional field that is not set.
undefined == "undefined"

(***************************************************************************)
(* 32-bit words as <<hi, lo>>.                                             *)
(***************************************************************************)
XorBit(x, y) == (x + y) % 2
OrBit(x, y)  == IF x + y > 0 THEN 1 ELSE 0

Xor4 == [a \in 0..15, b \in 0..15 |->
            XorBit(a % 2, b % 2)
          + 2 * XorBit((a \div 2) % 2, (b \div 2) % 2)
          + 4 * XorBit((a \div 4) % 2, (b \div 4) % 2)
          + 8 * XorBit(a \div 8, b \div 8)]

Or4 == [a \in 0..15, b \in 0..15 |->
            OrBit(a % 2, b % 2)
          + 2 * OrBit((a \div 2) % 2, (b \div 2) % 2)
          + 4 * OrBit((a \div 4) % 2, (b \div 4) % 2)
          + 8 * OrBit(a \div 8, b \div 8)]

\* a bitwise operator on 16 bits, from its table on 4 bits
Bitwise16(table, a, b) ==
      4096 * table[a \div 4096, b \div 4096]
    + 256 * table[(a \div 256) % 16, (b \div 256) % 16]
    + 16 * table[(a \div 16) % 16, (b \div 16) % 16]
    + table[a % 16, b % 16]

Bitwise32(table, a, b) == <<Bitwise16(table, a[1], b[1]), Bitwise16(table, a[2], b[2])>>

\* a ^ b
Xor32(a, b) == Bitwise32(Xor4, a, b)
\* a | b
Or32(a, b) == Bitwise32(Or4, a, b)

\* a >>> n, for 0 < n < 16
Shr32(a, n) ==
    <<a[1] \div 2^n, (a[1] % 2^n) * 2^(16 - n) + a[2] \div 2^n>>

\* (a + b) modulo 2^32
Add32(a, b) ==
    <<(a[1] + b[1] + (a[2] + b[2]) \div 65536) % 65536, (a[2] + b[2]) % 65536>>

\* the 32-bit product x * y of two 16-bit halves, as <<hi, lo>>
Mul16(x, y) ==
    LET split(p1, low) == <<p1 \div 256 + low \div 65536, low % 65536>>
    IN  split((x \div 256) * y, (((x \div 256) * y) % 256) * 256 + (x % 256) * y)

\* Math.imul(a, b): the low 32 bits of the product
imul(a, b) ==
    LET sum(ll) == <<(ll[1] + Mul16(a[1], b[2])[2] + Mul16(a[2], b[1])[2]) % 65536, ll[2]>>
    IN  sum(Mul16(a[2], b[2]))

\* seed >>> 0, for a seed that is a 32-bit integer
ToUint32(n) == <<(n \div 65536) % 65536, n % 65536>>

(***************************************************************************)
(* The deterministic generator.  The closure's variable t is a JavaScript  *)
(* number that "t += 0x6d2b79f5" never wraps: top counts the multiples of  *)
(* 2^32 in t and w holds t modulo 2^32, which is what the bitwise          *)
(* operators and Math.imul read from t.  From 2^53 on the sum is rounded   *)
(* to a double.                                                            *)
(***************************************************************************)
\* a generator whose state outlives the call that made it: each call of
\* simulatePairedLog starts further along
mulberry32Shared(seed) == [top |-> 0, w |-> ToUint32(seed + call)]

\* function mulberry32(seed): let t = seed >>> 0
mulberry32(seed) == [top |-> 0, w |-> ToUint32(seed)]

\* t as a number of 32-bit halves that are not reduced yet
rndCarried(top, hi, lo) ==
    [top |-> top + (hi + lo \div 65536) \div 65536,
     w   |-> <<(hi + lo \div 65536) % 65536, lo % 65536>>]

\* the low half of t with its last d bits rounded away, to nearest and ties
\* to even
rndRoundedLow(lo, d) ==
    IF lo % 2^d > 2^(d - 1) \/ (lo % 2^d = 2^(d - 1) /\ (lo \div 2^d) % 2 = 1)
    THEN (lo \div 2^d + 1) * 2^d
    ELSE (lo \div 2^d) * 2^d

\* the double nearest to the integer t: t itself below 2^53, and a multiple
\* of 2^d from 2^(52 + d) on, for t < 2^63
rndRounded(t) ==
    IF t.top < 2^21 THEN t
    ELSE rndCarried(t.top, t.w[1],
                    rndRoundedLow(t.w[2], CHOOSE d \in 1..10 :
                                              2^(20 + d) <= t.top /\ t.top < 2^(21 + d)))

\* t += 0x6d2b79f5, an addition of doubles
rndAdvance(t) == rndRounded(rndCarried(t.top, t.w[1] + 27947, t.w[2] + 31221))

\* k calls of the closure advance t by k * 0x6d2b79f5, as long as t stays
\* below 2^53, where every sum is exact
rndAdvanceBy(t, k) == rndCarried(t.top, t.w[1] + k * 27947, t.w[2] + k * 31221)

\* the rest of the closure: the 32-bit word u of the returned value u / 2^32
rndValue(t) ==
    LET first(w)  == imul(Xor32(w, Shr32(w, 15)), Or32(<<0, 1>>, w))
        second(r) == Xor32(r, Add32(r, imul(Xor32(r, Shr32(r, 7)), Or32(<<0, 61>>, r))))
        last(r)   == Xor32(r, Shr32(r, 14))
    IN  last(second(first(t.w)))

(***************************************************************************)
(* What the simulator computes from a returned value u / 2^32.             *)
(***************************************************************************)
\* Math.round(rnd() * k)
RoundTimes(u, k) == (u[1] * k + (u[2] * k) \div 65536 + 32768) \div 65536
\* Math.floor(rnd() * n)
FloorTimes(u, n) == (u[1] * n + (u[2] * n) \div 65536) \div 65536
\* rnd() < p, for a probability p = [n, d]
LessThan(u, p) == p.d * u[1] + (p.d * u[2]) \div 65536 < p.n * 65536

\* clamp(n, a, b) of lib/mining.ts
Max(x, y) == IF x >= y THEN x ELSE y
Min(x, y) == IF x <= y THEN x ELSE y
clamp(n, a, b) == Max(a, Min(b, n))

(***************************************************************************)
(* JavaScript numbers.  Every number of the mining engine is an IEEE 754   *)
(* double and every operator rounds to nearest, ties to even.  A finite    *)
(* number is [nan |-> FALSE, neg |-> sign, m |-> M, e |-> E] of value      *)
(* M * 2^E, where M is zero (with E = 0) or has exactly 53 bits; M is a    *)
(* sequence of 14-bit limbs, least significant first, without high zero    *)
(* limbs, as the integers of the checker are too narrow for a significand. *)
(* The program's values stay far from the subnormal and the overflow       *)
(* range.  A negative zero is written as zero: it arises only as a product *)
(* or quotient that is then added to a number, which gives the same sum.   *)
(***************************************************************************)
Limb == 2^14

SetMax(S) == CHOOSE x \in S : \A y \in S : y <= x

BigLimb(a, k) == IF k >= 1 /\ k <= Len(a) THEN a[k] ELSE 0

BigTrim(a) ==
    LET nz == {k \in 1..Len(a) : a[k] # 0}
    IN  IF nz = {} THEN <<>> ELSE SubSeq(a, 1, SetMax(nz))

\* the limbs of an integer 0 <= n < 2^31
BigFromInt(n) ==
    IF n = 0 THEN <<>> ELSE BigTrim(<<n % Limb, (n \div Limb) % Limb, n \div (Limb * Limb)>>)

\* the integer of a bignum below 2^28
BigToInt(a) == BigLimb(a, 1) + Limb * BigLimb(a, 2)

BigAdd(a, b) ==
    LET n == Max(Len(a), Len(b)) + 1
        carry[k \in 0..n] ==
            IF k = 0 THEN 0 ELSE (BigLimb(a, k) + BigLimb(b, k) + carry[k - 1]) \div Limb
    IN  IF Len(a) = 0 THEN b
        ELSE IF Len(b) = 0 THEN a
        ELSE BigTrim([k \in 1..n |-> (BigLimb(a, k) + BigLimb(b, k) + carry[k - 1]) % Limb])

\* a - b, for a >= b
BigSub(a, b) ==
    LET n == Len(a)
        borrow[k \in 0..n] ==
            IF k = 0 THEN 0
            ELSE IF BigLimb(a, k) - BigLimb(b, k) - borrow[k - 1] < 0 THEN 1 ELSE 0
    IN  IF Len(b) = 0 THEN a
        ELSE BigTrim([k \in 1..n |-> (BigLimb(a, k) - BigLimb(b, k) - borrow[k - 1]) % Limb])

BigLess(a, b) ==
    LET d == {k \in 1..Max(Len(a), Len(b)) : BigLimb(a, k) # BigLimb(b, k)}
    IN  IF Len(a) # Len(b) THEN Len(a) < Len(b)
        ELSE d # {} /\ BigLimb(a, SetMax(d)) < BigLimb(b, SetMax(d))

\* a * b, for a and b of at most four limbs
BigMul(a, b) ==
    LET n == Len(a) + Len(b)
        col(k) == BigLimb(a, 1) * BigLimb(b, k) + BigLimb(a, 2) * BigLimb(b, k - 1)
                  + BigLimb(a, 3) * BigLimb(b, k - 2) + BigLimb(a, 4) * BigLimb(b, k - 3)
        carry[k \in 0..n] ==
            IF k = 0 THEN 0 ELSE (col(k) + carry[k - 1]) \div Limb
    IN  IF Len(a) = 0 \/ Len(b) = 0 THEN <<>>
        ELSE BigTrim([k \in 1..n |-> (col(k) + carry[k - 1]) % Limb])

\* a * 2^s
BigShl(a, s) ==
    LET q == s \div 14
        r == s % 14
    IN  IF Len(a) = 0 THEN <<>>
        ELSE BigTrim([k \in 1..(Len(a) + q + 1) |->
                         ((BigLimb(a, k - q) * 2^r) % Limb)
                         + ((BigLimb(a, k - q - 1) * 2^r) \div Limb)])

\* floor(a / 2^s)
BigShr(a, s) ==
    LET q == s \div 14
        r == s % 14
    IN  IF Len(a) = 0 THEN <<>>
        ELSE BigTrim([k \in 1..Len(a) |->
                         (BigLimb(a, k + q) \div 2^r) + (BigLimb(a, k + q + 1) % 2^r) * 2^(14 - r)])

\* the number of bits of a
BigBitLen(a) ==
    IF Len(a) = 0 THEN 0
    ELSE 14 * (Len(a) - 1) + CHOOSE k \in 1..14 : 2^(k - 1) <= a[Len(a)] /\ a[Len(a)] < 2^k

BigOdd(a) == BigLimb(a, 1) % 2 = 1

\* floor(a / d) and a mod d, for 0 < d < 2^14
BigDivSmall(a, d) ==
    LET n == Len(a)
        rem[k \in 1..(n + 1)] ==
            IF k = n + 1 THEN 0 ELSE (rem[k + 1] * Limb + a[k]) % d
    IN  [q |-> BigTrim([k \in 1..n |-> (rem[k + 1] * Limb + a[k]) \div d]), r |-> rem[1]]

NumNaN == [nan |-> TRUE]
NumZero == [nan |-> FALSE, neg |-> FALSE, m |-> <<>>, e |-> 0]

\* a significand r of 53 or 54 bits with exponent e, as a double
NumPack(neg, r, e) ==
    IF BigBitLen(r) = 54
    THEN [nan |-> FALSE, neg |-> neg, m |-> BigShr(r, 1), e |-> e + 1]
    ELSE [nan |-> FALSE, neg |-> neg, m |-> r, e |-> e]

\* round to nearest, ties to even: the kept bits go up when the rest is above
\* half, or is half and more follows or the kept bits are odd
NumRoundsUp(sticky, kept, rest, half) ==
    \/ BigLess(half, rest)
    \/ rest = half /\ (sticky \/ BigOdd(kept))

\* M * 2^E with the low s bits of M rounded away
NumCut(neg, M, E, sticky, s, kept) ==
    NumPack(neg,
            IF NumRoundsUp(sticky, kept, BigSub(M, BigShl(kept, s)), BigShl(<<1>>, s - 1))
            THEN BigAdd(kept, <<1>>) ELSE kept,
            E + s)

NumRoundLen(neg, M, E, sticky, len) ==
    IF len = 0 THEN NumZero
    ELSE IF len <= 53
    THEN [nan |-> FALSE, neg |-> neg, m |-> BigShl(M, 53 - len), e |-> E - (53 - len)]
    ELSE NumCut(neg, M, E, sticky, len - 53, BigShr(M, len - 53))

\* the double nearest to (-1)^neg * M * 2^E, where sticky says that the exact
\* value is above M * 2^E and below (M + 1) * 2^E; with sticky, M has at
\* least 55 bits
NumRound(neg, M, E, sticky) == NumRoundLen(neg, M, E, sticky, BigBitLen(M))

NumOfMagnitude(neg, M, len) ==
    IF len = 0 THEN NumZero
    ELSE [nan |-> FALSE, neg |-> neg, m |-> BigShl(M, 53 - len), e |-> len - 53]

NumFromBig(neg, M) == NumOfMagnitude(neg, M, BigBitLen(M))

\* the number of an integer -2^31 < n < 2^31
NumFromInt(n) == NumFromBig(n < 0, BigFromInt(IF n < 0 THEN 0 - n ELSE n))

NumIsZero(x) == Len(x.m) = 0

\* |x| < |y|
NumMagLess(x, y) ==
    IF NumIsZero(y) THEN FALSE
    ELSE IF NumIsZero(x) THEN TRUE
    ELSE x.e < y.e \/ (x.e = y.e /\ BigLess(x.m, y.m))

\* x < y; false when either is NaN
NumLess(x, y) ==
    IF x.nan \/ y.nan THEN FALSE
    ELSE IF x.neg /\ ~y.neg THEN TRUE
    ELSE IF ~x.neg /\ y.neg THEN FALSE
    ELSE IF x.neg THEN NumMagLess(y, x)
    ELSE NumMagLess(x, y)

\* x >= y; false when either is NaN
NumGeq(x, y) == ~x.nan /\ ~y.nan /\ ~NumLess(x, y)

NumNeg(x) == IF x.nan \/ NumIsZero(x) THEN x ELSE [x EXCEPT !.neg = ~x.neg]

\* the sum of the significands mx and my, both at exponent E
NumAddAligned(x, y, E, mx, my) ==
    NumRound(IF x.neg # y.neg /\ BigLess(mx, my) THEN y.neg ELSE x.neg,
             IF x.neg = y.neg THEN BigAdd(mx, my)
             ELSE IF BigLess(mx, my) THEN BigSub(my, mx) ELSE BigSub(mx, my),
             E, FALSE)

NumAddAt(x, y, E) == NumAddAligned(x, y, E, BigShl(x.m, x.e - E), BigShl(y.m, y.e - E))

\* x + y
NumAdd(x, y) ==
    IF x.nan \/ y.nan THEN NumNaN
    ELSE IF NumIsZero(x) THEN y
    ELSE IF NumIsZero(y) THEN x
    ELSE NumAddAt(x, y, Min(x.e, y.e))

\* x - y
NumSub(x, y) == NumAdd(x, NumNeg(y))

\* x * y
NumMul(x, y) ==
    IF x.nan \/ y.nan THEN NumNaN
    ELSE NumRound(x.neg # y.neg, BigMul(x.m, y.m), x.e + y.e, FALSE)

NumDivIntRound(x, qr) == NumRound(x.neg, qr.q, x.e - 16, qr.r # 0)

\* x / d for an integer 0 < d < 2^14
NumDivInt(x, d) ==
    IF x.nan THEN NumNaN ELSE NumDivIntRound(x, BigDivSmall(BigShl(x.m, 16), d))

\* the largest g with g * d <= r256, given a g that is that or one more
BigDivTrial(r256, d, g) == IF BigLess(r256, BigMul(BigFromInt(g), d)) THEN g - 1 ELSE g

\* the next digit of the quotient by d: the quotient of r256 by the high limb
\* of d, or one less
BigDivDigit(r256, d) ==
    BigDivTrial(r256, d, (BigLimb(r256, 4) + Limb * BigLimb(r256, 5)) \div BigLimb(d, 4))

BigDivWith(prev, d, g) ==
    [n |-> prev.n + 1,
     q |-> BigAdd(BigShl(prev.q, 8), BigFromInt(g)),
     r |-> BigSub(BigShl(prev.r, 8), BigMul(BigFromInt(g), d))]

BigDivStep(prev, d) == BigDivWith(prev, d, BigDivDigit(BigShl(prev.r, 8), d))

\* long division in base 256: the first n digits behind the point of the
\* quotient by d, a number of 53 bits, given the first from.n of them; q is
\* the quotient so far and r the remainder
RECURSIVE BigDivDigits(_, _, _)
BigDivDigits(from, d, n) ==
    IF n = from.n THEN from ELSE BigDivStep(BigDivDigits(from, d, n - 1), d)

\* the digit of the quotient of a by b before the point, for a < 2 * b
BigDivLead(a, b) ==
    IF BigLess(a, b) THEN [n |-> 0, q |-> <<>>, r |-> a]
    ELSE [n |-> 0, q |-> <<1>>, r |-> BigSub(a, b)]

NumDivRound(x, y, qr) == NumRound(x.neg # y.neg, qr.q, x.e - y.e - 56, qr.r # <<>>)

\* x / y, for y not zero: the quotient of the significands to 57 bits
NumDiv(x, y) ==
    IF x.nan \/ y.nan THEN NumNaN
    ELSE IF NumIsZero(x) THEN NumZero
    ELSE NumDivRound(x, y, BigDivDigits(BigDivDigits(BigDivLead(x.m, y.m), y.m, 4), y.m, 7))

\* (high + g * 2^s)^2 <= N
BigSqrtFits(N, high, g, s) ==
    g = 0 \/ ~BigLess(N, BigMul(BigAdd(high, BigShl(BigFromInt(g), s)),
                                BigAdd(high, BigShl(BigFromInt(g), s))))

BigSqrtBit(N, high, s, g, b) == IF BigSqrtFits(N, high, g + b, s) THEN g + b ELSE g

\* the largest g in 0..15 with (high + g * 2^s)^2 <= N, a bit at a time
BigSqrtDigit(N, high, s) ==
    BigSqrtBit(N, high, s, BigSqrtBit(N, high, s, BigSqrtBit(N, high, s, BigSqrtBit(N, high, s, 0, 8), 4), 2), 1)

BigSqrtStep(N, prev) ==
    [n |-> prev.n + 1,
     r |-> BigAdd(prev.r, BigShl(BigFromInt(BigSqrtDigit(N, prev.r, 4 * (13 - prev.n))),
                                 4 * (13 - prev.n)))]

RECURSIVE BigSqrtDigits(_, _, _)
BigSqrtDigits(N, from, n) ==
    IF n = from.n THEN from ELSE BigSqrtStep(N, BigSqrtDigits(N, from, n - 1))

NumSqrtRound(N, r, E) == NumRound(FALSE, r, E, BigMul(r, r) # N)
NumSqrtRoot(N, E) ==
    NumSqrtRound(N, BigSqrtDigits(N, BigSqrtDigits(N, BigSqrtDigits(N, [n |-> 0, r |-> <<>>], 5), 10), 14).r, E)

\* Math.sqrt(x), for x >= 0
NumSqrt(x) ==
    IF x.nan THEN NumNaN
    ELSE IF NumIsZero(x) THEN NumZero
    ELSE IF x.e % 2 = 0 THEN NumSqrtRoot(BigShl(x.m, 58), (x.e - 58) \div 2)
    ELSE NumSqrtRoot(BigShl(x.m, 59), (x.e - 59) \div 2)

\* Math.max(x, y) and Math.min(x, y)
NumMax(x, y) == IF x.nan \/ y.nan THEN NumNaN ELSE IF NumLess(x, y) THEN y ELSE x
NumMin(x, y) == IF x.nan \/ y.nan THEN NumNaN ELSE IF NumLess(y, x) THEN y ELSE x

\* clamp(n, a, b) of lib/mining.ts, on doubles
clampNumber(n, a, b) == NumMax(a, NumMin(b, n))

\* Math.floor(x) and Math.ceil(x) as integers, for 0 <= x < 2^28
NumFloor(x) == IF x.e >= 0 THEN BigToInt(BigShl(x.m, x.e)) ELSE BigToInt(BigShr(x.m, 0 - x.e))
NumCeil(x) ==
    NumFloor(x)
    + (IF x.e < 0 /\ BigShl(BigShr(x.m, 0 - x.e), 0 - x.e) # x.m THEN 1 ELSE 0)

\* Math.round(x) as an integer, for 0 <= x < 2^27: floor(x + 1/2), exactly
NumRoundToInt(x) ==
    IF x.e >= 0 THEN NumFloor(x)
    ELSE (BigToInt(BigShr(x.m, 0 - x.e - 1)) + 1) \div 2

(***************************************************************************)
(* Dates.  A timestamp is an ISO string: <<v>> stands for the string of    *)
(* the instant v seconds after 2026-02-01T08:00:00Z, and <<>> for a string *)
(* that new Date cannot parse.                                              *)
(***************************************************************************)
NaN == [finite |-> FALSE, v |-> 0]
\* +new Date(timestamp), in seconds
DateValue(ts) == IF Len(ts) = 1 THEN [finite |-> TRUE, v |-> ts[1]] ELSE NaN
\* new Date(v).toISOString()
toISOString(v) == <<v>>
\* d.setMinutes(d.getMinutes() + minutes); return d.toISOString()
addMinutes(iso, minutes) == toISOString(DateValue(iso).v + 60 * minutes)
\* new Date("2026-02-01T08:00:00Z").toISOString()
baseStart == toISOString(0)

(***************************************************************************)
(* The reference model and the static tables of lib/simulate.ts.           *)
(***************************************************************************)
ISSUE_FAMILIES ==
    << "Qualité / conformité", "Données / continuité numérique",
       "Organisation / flux", "Risque" >>

TO_BE ==
    [ name  |-> "WF Flow-3D - TO-BE (controlled digital transfers)",
      start |-> "BE - CATPart (pièce)",
      end   |-> "Decision - Archive/Release",
      activities |->
        << "BE - CATPart (pièce)",
           "BM - Pre-process (CATPart→STL)",
           "Gate 1 - Validation STL",
           "SIMU - FLOW-3D (Verse «360»)",
           "Gate 2 - Validation CSV (débit)",
           "BE - Secteur (CATPart)",
           "SIMU - ProCast (Thermique préchauff.)",
           "BM - Pre-process (Modèle préchauff. Abaqus)",
           "SIMU - ABAQUS (Calcul préchauff.)",
           "BM - Pre-process (Transfert déformé STL/IN2)",
           "Gate 3 - Validation transfert déformé",
           "SIMU - FLOW-3D (Remplissage «zoom»)",
           "SIMU - ABAQUS (Mécanique remplissage)",
           "Decision - Archive/Release" >>,
      allowedEdges |->
        << <<"BE - CATPart (pièce)", "BM - Pre-process (CATPart→STL)">>,
           <<"BM - Pre-process (CATPart→STL)", "Gate 1 - Validation STL">>,
           <<"Gate 1 - Validation STL", "SIMU - FLOW-3D (Verse «360»)">>,
           <<"SIMU - FLOW-3D (Verse «360»)", "Gate 2 - Validation CSV (débit)">>,
           <<"BE - Secteur (CATPart)", "SIMU - ProCast (Thermique préchauff.)">>,
           <<"SIMU - ProCast (Thermique préchauff.)", "BM - Pre-process (Modèle préchauff. Abaqus)">>,
           <<"BM - Pre-process (Modèle préchauff. Abaqus)", "SIMU - ABAQUS (Calcul préchauff.)">>,
           <<"SIMU - ABAQUS (Calcul préchauff.)", "BM - Pre-process (Transfert déformé STL/IN2)">>,
           <<"BM - Pre-process (Transfert déformé STL/IN2)", "Gate 3 - Validation transfert déformé">>,
           <<"Gate 2 - Validation CSV (débit)", "SIMU - FLOW-3D (Remplissage «zoom»)">>,
           <<"Gate 3 - Validation transfert déformé", "SIMU - FLOW-3D (Remplissage «zoom»)">>,
           <<"SIMU - FLOW-3D (Remplissage «zoom»)", "SIMU - ABAQUS (Mécanique remplissage)">>,
           <<"SIMU - ABAQUS (Mécanique remplissage)", "Decision - Archive/Release">>,
           <<"SIMU - FLOW-3D (Remplissage «zoom»)", "BM - Pre-process (Transfert déformé STL/IN2)">> >> ]

Gate1    == "Gate 1 - Validation STL"
Gate2    == "Gate 2 - Validation CSV (débit)"
Gate3    == "Gate 3 - Validation transfert déformé"
Verse360 == "SIMU - FLOW-3D (Verse «360»)"
Zoom     == "SIMU - FLOW-3D (Remplissage «zoom»)"
Transfer == "BM - Pre-process (Transfert déformé STL/IN2)"
ManualExport == "Manual - Export/Convert (format)"
ManualSync   == "Manual - Sync deformation (STL/IN2)"

\* STAFFING: the number of resources of each role
STAFFING == [BE |-> 4, BM |-> 3, SIMU |-> 3, IPT |-> 1, GATE |-> 1, MANUAL |-> 1]

\* String(n).padStart(width, "0")
RECURSIVE padStart(_, _)
padStart(str, width) == IF Len(str) >= width THEN str ELSE padStart("0" \o str, width)

\* RESOURCE_POOLS[role]: `${role}-01`, `${role}-02`, ...
RESOURCE_POOLS(role) ==
    [k \in 1..STAFFING[role] |-> role \o "-" \o padStart(ToString(k), 2)]

\* actorFromActivity: the role named by the activity's prefix ("BE -", "BM -",
\* "SIMU -", "Decision", "Gate", "Manual"), on the activity names of the program;
\* any other name has none of these prefixes.
actorFromActivity(activity) ==
    IF activity \in {"BE - CATPart (pièce)", "BE - Secteur (CATPart)"} THEN "BE"
    ELSE IF activity \in {"BM - Pre-process (CATPart→STL)",
                          "BM - Pre-process (Modèle préchauff. Abaqus)", Transfer} THEN "BM"
    ELSE IF activity \in {Verse360, "SIMU - ProCast (Thermique préchauff.)",
                          "SIMU - ABAQUS (Calcul préchauff.)", Zoom,
                          "SIMU - ABAQUS (Mécanique remplissage)"} THEN "SIMU"
    ELSE IF activity = "Decision - Archive/Release" THEN "IPT"
    ELSE IF activity \in {Gate1, Gate2, Gate3} THEN "GATE"
    ELSE IF activity \in {ManualExport, ManualSync} THEN "MANUAL"
    ELSE undefined

\* toolFromActivity: the tool named inside the activity, by the same tests in order
toolFromActivity(activity) ==
    IF activity \in {Verse360, Zoom} THEN "FLOW-3D"
    ELSE IF activity \in {"SIMU - ABAQUS (Calcul préchauff.)",
                          "SIMU - ABAQUS (Mécanique remplissage)"} THEN "ABAQUS"
    ELSE IF activity = "SIMU - ProCast (Thermique préchauff.)" THEN "ProCast"
    ELSE IF activity \in {"BM - Pre-process (CATPart→STL)",
                          "BM - Pre-process (Modèle préchauff. Abaqus)", Transfer} THEN "Pre-process"
    ELSE IF activity \in {Gate1, Gate2, Gate3, "Decision - Archive/Release"} THEN "PLM"
    ELSE IF activity \in {ManualExport, ManualSync} THEN "Local/Script"
    ELSE "CATIA/3DEXP"

\* pickResource(actor, rnd): the resource and the generator's state afterwards
pickResource(actor, t) ==
    LET pick(pool, t1) ==
            IF Len(pool) = 0 THEN [value |-> actor \o "-01", rnd |-> t]
            ELSE [rnd |-> t1, value |-> pool[FloorTimes(rndValue(t1), Len(pool)) + 1]]
    IN  IF actor = undefined THEN [value |-> undefined, rnd |-> t]
        ELSE pick(RESOURCE_POOLS(actor), rndAdvance(t))

(***************************************************************************)
(* Arrays: JavaScript indexes from 0, sequences from 1.                    *)
(***************************************************************************)
\* trace.findIndex((e) => e.activity === activity): a 0-based index, or -1
findIndex(arr, activity) ==
    IF \E j \in 1..Len(arr) : arr[j].activity = activity
    THEN (CHOOSE j \in 1..Len(arr) :
              /\ arr[j].activity = activity
              /\ \A k \in 1..(j - 1) : arr[k].activity # activity) - 1
    ELSE -1

\* arr.splice(at, 0, ...items), at a 0-based index
splice(arr, at, items) ==
    SubSeq(arr, 1, at) \o items \o SubSeq(arr, at + 1, Len(arr))

\* the comparator (a, b) => +new Date(a.timestamp) - +new Date(b.timestamp);
\* Array.prototype.sort reads a NaN result as 0
compareTimestamps(a, b) ==
    LET x == DateValue(a.timestamp)
        y == DateValue(b.timestamp)
    IN  IF x.finite /\ y.finite THEN x.v - y.v ELSE 0

\* The comparator is consistent on arr unless an unparsable timestamp (equal
\* to everything) stands beside two different parsable ones.
ConsistentComparator(arr) ==
    \/ \A j \in 1..Len(arr) : DateValue(arr[j].timestamp).finite
    \/ \A j, k \in 1..Len(arr) : compareTimestamps(arr[j], arr[k]) = 0

\* Array.prototype.sort with a consistent comparator is a stable ascending
\* sort: an element goes behind every smaller one and behind every equal one
\* that stood before it.
sortedPosition(arr, j) ==
    Cardinality({k \in 1..Len(arr) :
        \/ compareTimestamps(arr[k], arr[j]) < 0
        \/ compareTimestamps(arr[k], arr[j]) = 0 /\ k < j}) + 1

stableSort(arr) ==
    [p \in 1..Len(arr) |-> arr[CHOOSE j \in 1..Len(arr) : sortedPosition(arr, j) = p]]

(***************************************************************************)
(* genToBeCase.                                                            *)
(***************************************************************************)
\* the object dur and the array seq: each activity with the base and the
\* spread of its duration
genToBeSeq ==
    << [activity |-> "BE - CATPart (pièce)",                         base |-> 60, spread |-> 120],
       [activity |-> "BM - Pre-process (CATPart→STL)",               base |-> 20, spread |-> 60],
       [activity |-> "Gate 1 - Validation STL",                      base |-> 8,  spread |-> 20],
       [activity |-> "SIMU - FLOW-3D (Verse «360»)",                 base |-> 45, spread |-> 120],
       [activity |-> "Gate 2 - Validation CSV (débit)",              base |-> 8,  spread |-> 20],
       [activity |-> "BE - Secteur (CATPart)",                       base |-> 20, spread |-> 40],
       [activity |-> "SIMU - ProCast (Thermique préchauff.)",        base |-> 90, spread |-> 240],
       [activity |-> "BM - Pre-process (Modèle préchauff. Abaqus)",  base |-> 25, spread |-> 60],
       [activity |-> "SIMU - ABAQUS (Calcul préchauff.)",            base |-> 60, spread |-> 180],
       [activity |-> "BM - Pre-process (Transfert déformé STL/IN2)", base |-> 25, spread |-> 60],
       [activity |-> "Gate 3 - Validation transfert déformé",        base |-> 8,  spread |-> 20],
       [activity |-> "SIMU - FLOW-3D (Remplissage «zoom»)",          base |-> 70, spread |-> 180],
       [activity |-> "SIMU - ABAQUS (Mécanique remplissage)",        base |-> 80, spread |-> 220],
       [activity |-> "Decision - Archive/Release",                   base |-> 15, spread |-> 45] >>

\* whether pickResource(actor, rnd) calls rnd()
pickResourceDraws(actor) ==
    IF actor = undefined THEN 0 ELSE IF Len(RESOURCE_POOLS(actor)) = 0 THEN 0 ELSE 1

\* the last step alone, as if t did not accumulate
lastStepOnly(s, lo, hi) == s[hi]

\* s[lo] + ... + s[hi]
RECURSIVE SumBetween(_, _, _)
SumBetween(s, lo, hi) ==
    IF lo > hi THEN 0
    ELSE IF lo = hi THEN s[lo]
    ELSE SumBetween(s, lo, (lo + hi) \div 2) + SumBetween(s, (lo + hi) \div 2 + 1, hi)

\* genToBeCase(caseId, startISO, rnd): the events, and the generator's state
\* afterwards.  const dur = {...} takes one draw per duration, in the order
\* written; then the loop over seq advances t by each deltaMin and takes the
\* draw of pickResource for each event.
genToBeCase(caseId, startISO, t) ==
    LET n   == Len(genToBeSeq)
        dur == [k \in 1..n |->
                   genToBeSeq[k].base
                   + RoundTimes(rndValue(rndAdvanceBy(t, k)), genToBeSeq[k].spread)]
        drawsBefore(k) ==
            n + Cardinality({j \in 1..(k - 1) :
                    pickResourceDraws(actorFromActivity(genToBeSeq[j].activity)) = 1})
    IN  [rnd |-> rndAdvanceBy(t, drawsBefore(n + 1)),
         events |->
            [k \in 1..n |->
                LET step  == genToBeSeq[k]
                    actor == actorFromActivity(step.activity)
                IN  [case_id |-> caseId, activity |-> step.activity,
                     timestamp |-> addMinutes(startISO, SumBetween(dur, 1, k)),
                     actor |-> actor, tool |-> toolFromActivity(step.activity),
                     resource |-> pickResource(actor, rndAdvanceBy(t, drawsBefore(k))).value,
                     outcome |-> "OK", issue_family |-> undefined]]]

(***************************************************************************)
(* injectAsIsNoise.  Each step takes and returns [trace, rnd]: the trace   *)
(* so far and the generator's state.                                       *)
(***************************************************************************)
\* a removal that does not look at its draw
maybeRemoveWhateverDrawn(st, activity, pSkipGate) ==
    [rnd |-> rndAdvance(st.rnd),
     trace |-> SelectSeq(st.trace, LAMBDA e : e.activity # activity)]

\* a removal that takes the last event of the trace
maybeRemoveLast(st, activity, pSkipGate) ==
    [rnd |-> rndAdvance(st.rnd), trace |-> SubSeq(st.trace, 1, Len(st.trace) - 1)]

\* maybeRemove(activity)
maybeRemove(st, activity, pSkipGate) ==
    LET drawn(t1) ==
            [rnd |-> t1,
             trace |-> IF LessThan(rndValue(t1), pSkipGate)
                       THEN SelectSeq(st.trace, LAMBDA e : e.activity # activity)
                       ELSE st.trace]
    IN  drawn(rndAdvance(st.rnd))

\* a manual event put behind its anchor, base minutes after it
manualTransferBehind(st, p, anchor, activity, base, spread) ==
    IF findIndex(st.trace, anchor) > 0
    THEN [rnd |-> rndAdvance(st.rnd),
          trace |-> splice(st.trace, findIndex(st.trace, anchor) + 1,
                       << [st.trace[findIndex(st.trace, anchor) + 1] EXCEPT
                              !.activity = activity,
                              !.timestamp = addMinutes(@, base),
                              !.issue_family = "Données / continuité numérique"] >>)]
    ELSE [rnd |-> rndAdvance(st.rnd), trace |-> st.trace]

\* if (rnd() < p) { idx = findIndex(anchor); if (idx > 0) splice a manual event }
manualTransfer(st, p, anchor, activity, base, spread) ==
    LET inserted(idx, at, t2, res) ==
            [rnd |-> res.rnd,
             trace |-> splice(st.trace, idx,
                          << [case_id |-> at.case_id, activity |-> activity,
                              timestamp |-> addMinutes(at.timestamp,
                                                base + RoundTimes(rndValue(t2), spread)),
                              actor |-> "MANUAL",
                              tool |-> toolFromActivity(activity),
                              resource |-> res.value, outcome |-> "REWORK",
                              issue_family |-> "Données / continuité numérique"] >>)]
        timed(idx, t2) == inserted(idx, st.trace[idx], t2, pickResource("MANUAL", t2))
        drawn(t1, idx) ==
            IF LessThan(rndValue(t1), p) /\ idx > 0
            THEN timed(idx, rndAdvance(t1))
            ELSE [rnd |-> t1, trace |-> st.trace]
    IN  drawn(rndAdvance(st.rnd), findIndex(st.trace, anchor))

\* randomIssueFamily(rnd)
randomIssueFamily(t) ==
    LET drawn(t1) ==
            [rnd |-> t1,
             value |-> ISSUE_FAMILIES[clamp(FloorTimes(rndValue(t1), Len(ISSUE_FAMILIES)),
                                            0, Len(ISSUE_FAMILIES) - 1) + 1]]
    IN  drawn(rndAdvance(t))

\* a loop condition that is never met
loopAppliesNever(zoomIdx, transferIdx) == FALSE

\* a loop condition that does not ask for the upstream event to come first
loopAppliesUnordered(zoomIdx, transferIdx) == zoomIdx >= 0 /\ transferIdx >= 0

\* zoomIdx >= 0 && transferIdx >= 0 && transferIdx < zoomIdx
loopApplies(zoomIdx, transferIdx) ==
    zoomIdx >= 0 /\ transferIdx >= 0 /\ transferIdx < zoomIdx

\* a loop body that is never entered
loopCyclesNone(tr, insertAt, k, loops, cause, t) == [rnd |-> t, trace |-> tr]

\* for (let i = 0; i < loops; i++) {...}
RECURSIVE loopCycles(_, _, _, _, _, _)
loopCycles(tr, insertAt, k, loops, cause, t) ==
    LET inserted(prev, t1, t2, r1, r2) ==
            loopCycles(
                splice(tr, insertAt,
                    << [case_id |-> prev.case_id, activity |-> Transfer,
                        timestamp |-> t1, actor |-> "BM",
                        tool |-> toolFromActivity(Transfer),
                        resource |-> r1.value, outcome |-> "REWORK",
                        issue_family |-> cause],
                       [case_id |-> prev.case_id, activity |-> Zoom,
                        timestamp |-> t2, actor |-> "SIMU",
                        tool |-> toolFromActivity(Zoom),
                        resource |-> r2.value,
                        outcome |-> IF k = loops - 1 THEN "OK" ELSE "ISSUE",
                        issue_family |-> IF k = loops - 1 THEN undefined ELSE cause] >>),
                insertAt + 2, k + 1, loops, cause, r2.rnd)
        resourced(prev, t1, tb, r1) ==
            inserted(prev, t1, addMinutes(t1, 60 + RoundTimes(rndValue(tb), 150)),
                     r1, pickResource("SIMU", r1.rnd))
        timed(prev, ta, tb) ==
            resourced(prev, addMinutes(prev.timestamp, 20 + RoundTimes(rndValue(ta), 50)),
                      tb, pickResource("BM", tb))
        drawn(prev, ta) == timed(prev, ta, rndAdvance(ta))
    IN  IF k >= loops THEN [rnd |-> t, trace |-> tr]
        ELSE drawn(tr[insertAt], rndAdvance(t))

\* if (rnd() < pUncontrolledLoop) {...}
uncontrolledLoop(st, pUncontrolledLoop, maxLoops) ==
    LET looped(zoomIdx, cause, t2) ==
            loopCycles([st.trace EXCEPT ![zoomIdx + 1] =
                           [@ EXCEPT !.outcome = "ISSUE", !.issue_family = cause.value]],
                       zoomIdx + 1, 0,
                       1 + FloorTimes(rndValue(t2), clamp(maxLoops, 1, 3)),
                       cause.value, t2)
        caused(zoomIdx, cause) == looped(zoomIdx, cause, rndAdvance(cause.rnd))
        drawn(t1, zoomIdx, transferIdx) ==
            IF LessThan(rndValue(t1), pUncontrolledLoop) /\ loopApplies(zoomIdx, transferIdx)
            THEN caused(zoomIdx, randomIssueFamily(t1))
            ELSE [rnd |-> t1, trace |-> st.trace]
    IN  drawn(rndAdvance(st.rnd), findIndex(st.trace, Zoom), findIndex(st.trace, Transfer))

\* pManual * 0.8
TimesEightTenths(p) == [n |-> p.n * 8, d |-> p.d * 10]

\* a sort with the comparator's operands exchanged: latest first
sortTraceDescending(arr) ==
    [p \in 1..Len(arr) |-> stableSort(arr)[Len(arr) + 1 - p]]

\* trace.sort(...) of injectAsIsNoise; every timestamp of a simulated trace parses
sortTrace(arr) == stableSort(arr)

\* a case id that ignores the loop counter
caseIdOfFirst(k) == "WF-" \o padStart(ToString(1), 5)

\* `WF-${String(i).padStart(5, "0")}`
caseIdOf(k) == "WF-" \o padStart(ToString(k), 5)

(***************************************************************************)
(* lib/mining.ts.  A Map is the sequence of its entries [key, value] in    *)
(* insertion order, a Set<string> the set of its strings.                  *)
(***************************************************************************)
\* the distinct entries of a sequence, each at the place of its first
\* occurrence: the keys of a Map in the order in which set() inserted them
InsertionOrder(keys) ==
    LET first == {j \in 1..Len(keys) : \A k \in 1..(j - 1) : keys[k] # keys[j]}
    IN  [p \in 1..Cardinality(first) |->
            keys[CHOOSE j \in first : Cardinality({k \in first : k < j}) = p - 1]]

\* `${a} -> ${b}`
edgeKey(a, b) == a \o " -> " \o b

\* 0.5 and 0.95, the literals of the calls of percentile
Half == NumDivInt(NumFromInt(1), 2)
NinetyFiveHundredths == NumDivInt(NumFromInt(95), 100)

percentile(sortedAsc, p) ==
    LET interpolate(lo, hi, w) ==
            IF lo = hi THEN sortedAsc[lo + 1]
            ELSE NumAdd(NumMul(sortedAsc[lo + 1], NumSub(NumFromInt(1), w)),
                        NumMul(sortedAsc[hi + 1], w))
        between(idx, lo) == interpolate(lo, NumCeil(idx), NumSub(idx, NumFromInt(lo)))
        at(idx) == between(idx, NumFloor(idx))
    IN  IF Len(sortedAsc) = 0 THEN NumZero
        ELSE at(NumMul(NumFromInt(Len(sortedAsc) - 1), p))

buildAllowedEdgeSet(model) ==
    {edgeKey(model.allowedEdges[k][1], model.allowedEdges[k][2]) :
        k \in 1..Len(model.allowedEdges)}

\* a grouping that leaves each case in insertion order
arraySortOmitted(arr, order) == arr

\* arr.sort((a, b) => +new Date(a.timestamp) - +new Date(b.timestamp)): with
\* an inconsistent comparator the order is the engine's choice, order being
\* the permutation that the engine in use leaves such an array in
arraySort(arr, order) ==
    IF ConsistentComparator(arr) THEN stableSort(arr)
    ELSE [k \in 1..Len(arr) |-> arr[order[k]]]

\* groupByCase(events) in an engine whose sort leaves the p-th case, when its
\* comparator is inconsistent, in the order impl[p]
groupByCaseBy(evs, impl) ==
    LET entries(ids) ==
            [p \in 1..Len(ids) |->
                [key   |-> ids[p],
                 value |-> arraySort(SelectSeq(evs, LAMBDA e : e.case_id = ids[p]),
                                     impl[p])]]
    IN  entries(InsertionOrder([j \in 1..Len(evs) |-> evs[j].case_id]))

groupByCase(evs) == groupByCaseBy(evs, sortImpl)

\* the events visited by "for (const [, trace] of byCase) for (const ev of trace)"
RECURSIVE traceEvents(_, _)
traceEvents(byCase, p) ==
    IF p > Len(byCase) THEN <<>>
    ELSE byCase[p].value \o traceEvents(byCase, p + 1)

\* pairs taken over the whole log, across the boundaries of the cases
adjacentPairsAcrossCases(byCase, p) ==
    LET chain(visited) ==
            [k \in 1..(Len(visited) - 1) |-> [a |-> visited[k], b |-> visited[k + 1]]]
    IN  chain(traceEvents(byCase, p))

\* the pairs trace[i], trace[i + 1] visited by "for (const [, trace] of byCase)
\* for (let i = 0; i < trace.length - 1; i++)", in the order of the visit
RECURSIVE adjacentPairs(_, _)
adjacentPairs(byCase, p) ==
    IF p > Len(byCase) THEN <<>>
    ELSE [k \in 1..(Len(byCase[p].value) - 1) |->
             [a |-> byCase[p].value[k], b |-> byCase[p].value[k + 1]]]
         \o adjacentPairs(byCase, p + 1)

pairKey(pr) == edgeKey(pr.a.activity, pr.b.activity)

\* (+new Date(b.timestamp) - +new Date(a.timestamp)) / (1000 * 60): the
\* quotient of the milliseconds by 60000 is that of the seconds by 60
dtMin(a, b) ==
    LET quotient(x, y) ==
            IF x.finite /\ y.finite THEN NumDivInt(NumFromInt(y.v - x.v), 60) ELSE NumNaN
    IN  quotient(DateValue(a.timestamp), DateValue(b.timestamp))

\* Number.isFinite(dtMin) alone
isFiniteOnly(d) == ~d.nan

\* Number.isFinite(dtMin) && dtMin >= 0
isFiniteNonNegative(d) == ~d.nan /\ NumGeq(d, NumZero)

buildDFG(evs) ==
    LET node(visited, id) ==
            [id    |-> id,
             count |-> Cardinality({j \in 1..Len(visited) : visited[j].activity = id})]
        \* k.split(" -> "): no activity of the logs of this model contains the
        \* separator, so the two parts are the activities the key was made of
        edge(pairs, key, pr) ==
            [source |-> pr.a.activity, target |-> pr.b.activity,
             count  |-> Cardinality({j \in 1..Len(pairs) : pairKey(pairs[j]) = key})]
        result(visited, pairs, nodeIds, keys) ==
            [computed |-> TRUE,
             nodes |-> [p \in 1..Len(nodeIds) |-> node(visited, nodeIds[p])],
             edges |-> [p \in 1..Len(keys) |->
                          edge(pairs, keys[p],
                               pairs[CHOOSE j \in 1..Len(pairs) : pairKey(pairs[j]) = keys[p]])]]
        counted(visited, pairs) ==
            result(visited, pairs,
                   InsertionOrder([j \in 1..Len(visited) |-> visited[j].activity]),
                   InsertionOrder([j \in 1..Len(pairs) |-> pairKey(pairs[j])]))
        grouped(byCase) == counted(traceEvents(byCase, 1), adjacentPairs(byCase, 1))
    IN  grouped(groupByCase(evs))

\* [...arr].sort((x, y) => x - y): a stable ascending sort of finite numbers
numberSort(arr) ==
    [p \in 1..Len(arr) |->
        arr[CHOOSE j \in 1..Len(arr) :
                Cardinality({k \in 1..Len(arr) :
                    NumLess(arr[k], arr[j]) \/ (~NumLess(arr[j], arr[k]) /\ k < j)}) = p - 1]]

\* s.reduce((acc, v) => acc + v, 0), up to the entry k
RECURSIVE reduceSum(_, _)
reduceSum(s, k) == IF k = 0 THEN NumZero ELSE NumAdd(reduceSum(s, k - 1), s[k])

\* count ? totalMin / count : 0
meanOf(totalMin, count) == IF count # 0 THEN NumDivInt(totalMin, count) ELSE NumZero

\* the durations pushed for a sequence of pairs
durationsOf(pairs) == [j \in 1..Len(pairs) |-> dtMin(pairs[j].a, pairs[j].b)]

computeEdgeStats(evs) ==
    LET entry(key, s, totalMin) ==
            [key |-> key,
             value |-> [count     |-> Len(s),
                        totalMin  |-> totalMin,
                        meanMin   |-> meanOf(totalMin, Len(s)),
                        p95Min    |-> percentile(s, NinetyFiveHundredths),
                        medianMin |-> percentile(s, Half)]]
        stat(key, s) == entry(key, s, reduceSum(s, Len(s)))
        durations(pairs, key) ==
            durationsOf(SelectSeq(pairs, LAMBDA pr :
                /\ pairKey(pr) = key
                /\ isFiniteNonNegative(dtMin(pr.a, pr.b))))
        perKey(pairs, keys) ==
            [computed |-> TRUE,
             stats |-> [p \in 1..Len(keys) |->
                          stat(keys[p], numberSort(durations(pairs, keys[p])))]]
        ofPairs(pairs) ==
            perKey(pairs, InsertionOrder([j \in 1..Len(pairs) |-> pairKey(pairs[j])]))
    IN  ofPairs(adjacentPairs(groupByCase(evs), 1))

computeCaseLeadTimes(evs) ==
    LET result(s, totalMin) ==
            [computed |-> TRUE,
             count     |-> Len(s),
             meanMin   |-> meanOf(totalMin, Len(s)),
             medianMin |-> percentile(s, Half),
             p95Min    |-> percentile(s, NinetyFiveHundredths)]
        summed(s) == result(s, reduceSum(s, Len(s)))
        ends(byCase) ==
            [p \in 1..Len(byCase) |->
                [a |-> byCase[p].value[1], b |-> byCase[p].value[Len(byCase[p].value)],
                 n |-> Len(byCase[p].value)]]
        leadTimes(firstLast) ==
            durationsOf(SelectSeq(firstLast, LAMBDA pr :
                /\ pr.n >= 2
                /\ isFiniteNonNegative(dtMin(pr.a, pr.b))))
    IN  summed(numberSort(leadTimes(ends(groupByCase(evs)))))

computeConformanceSummary(evs, allowedSet) ==
    LET result(totalEdges, badEdges) ==
            [computed |-> TRUE,
             conformance |->
                IF totalEdges = 0 THEN 100
                ELSE NumRoundToInt(NumMul(NumDivInt(NumFromInt(totalEdges - badEdges),
                                                    totalEdges),
                                          NumFromInt(100))),
             totalEdges |-> totalEdges,
             badEdges |-> badEdges]
        counted(pairs) ==
            result(Len(pairs),
                   Cardinality({j \in 1..Len(pairs) : pairKey(pairs[j]) \notin allowedSet}))
    IN  counted(adjacentPairs(groupByCase(evs), 1))

computeDeviationTime(evs, allowedSet) ==
    LET total(dts) == [computed |-> TRUE, totalMin |-> reduceSum(dts, Len(dts))]
        added(pairs) ==
            durationsOf(SelectSeq(pairs, LAMBDA pr :
                /\ isFiniteNonNegative(dtMin(pr.a, pr.b))
                /\ pairKey(pr) \notin allowedSet))
    IN  total(added(adjacentPairs(groupByCase(evs), 1)))

\* seq.join(sep)
RECURSIVE join(_, _)
join(seq, sep) ==
    IF Len(seq) = 0 THEN ""
    ELSE IF Len(seq) = 1 THEN seq[1]
    ELSE seq[1] \o sep \o join(Tail(seq), sep)

\* [...].sort((a, b) => b.count - a.count): a stable sort, counts descending
sortByCountDescending(arr) ==
    [p \in 1..Len(arr) |->
        arr[CHOOSE j \in 1..Len(arr) :
                Cardinality({k \in 1..Len(arr) :
                    \/ arr[k].count > arr[j].count
                    \/ arr[k].count = arr[j].count /\ k < j}) = p - 1]]

computeTraces(evs) ==
    LET result(caseTrace, variantCount) ==
            [computed  |-> TRUE,
             caseTrace |-> caseTrace,
             variants  |-> sortByCountDescending(variantCount)]
        \* cur ? cur.count += 1 : variantCount.set(key, { count: 1, sampleCase: cid })
        counted(caseTrace, keys, variantKeys) ==
            result(caseTrace,
                   [q \in 1..Len(variantKeys) |->
                       [variant    |-> variantKeys[q],
                        count      |-> Cardinality({p \in 1..Len(keys) : keys[p] = variantKeys[q]}),
                        sampleCase |-> caseTrace[CHOOSE p \in 1..Len(keys) :
                                                    /\ keys[p] = variantKeys[q]
                                                    /\ \A k \in 1..(p - 1) : keys[k] # keys[p]].key]])
        keyed(caseTrace, keys) == counted(caseTrace, keys, InsertionOrder(keys))
        joined(caseTrace) ==
            keyed(caseTrace, [p \in 1..Len(caseTrace) |-> join(caseTrace[p].value, " → ")])
        sequences(byCase) ==
            joined([p \in 1..Len(byCase) |->
                       [key   |-> byCase[p].key,
                        value |-> [k \in 1..Len(byCase[p].value) |->
                                      byCase[p].value[k].activity]]])
    IN  sequences(groupByCase(evs))

\* a lead time counted as it is, negative or not
maxZeroOmitted(x) == x

\* Math.max(0, x)
maxZero(x) == IF x.nan THEN x ELSE IF NumLess(x, NumZero) THEN NumZero ELSE x

\* m.get(key) of a Map of arrays, <<>> standing for undefined: no array of a
\* Map built by groupByCase is empty
mapGet(m, key) ==
    IF \E p \in 1..Len(m) : m[p].key = key
    THEN m[CHOOSE p \in 1..Len(m) : m[p].key = key].value
    ELSE <<>>

computeLeadTimeDelta(toBeLog, asIsLog) ==
    LET result(s, totalMin) ==
            [computed |-> TRUE,
             count    |-> Len(s),
             totalMin |-> totalMin,
             meanMin  |-> meanOf(totalMin, Len(s)),
             p95Min   |-> percentile(s, NinetyFiveHundredths)]
        summed(s) == result(s, reduceSum(s, Len(s)))
        leadTime(tr) == dtMin(tr[1], tr[Len(tr)])
        deltas(ms) == [p \in 1..Len(ms) |-> maxZero(NumSub(ms[p].asIsMin, ms[p].toBeMin))]
        \* if (!Number.isFinite(toBeMin) || !Number.isFinite(asIsMin)) continue
        measured(prs) ==
            SelectSeq([p \in 1..Len(prs) |->
                          [toBeMin |-> leadTime(prs[p].toBeTrace),
                           asIsMin |-> leadTime(prs[p].asIsTrace)]],
                      LAMBDA m : ~m.toBeMin.nan /\ ~m.asIsMin.nan)
        \* if (!asIsTrace || toBeTrace.length < 2 || asIsTrace.length < 2) continue
        paired(toBeByCase, asIsByCase) ==
            SelectSeq([p \in 1..Len(toBeByCase) |->
                          [toBeTrace |-> toBeByCase[p].value,
                           asIsTrace |-> mapGet(asIsByCase, toBeByCase[p].key)]],
                      LAMBDA pr : Len(pr.toBeTrace) >= 2 /\ Len(pr.asIsTrace) >= 2)
    IN  summed(numberSort(deltas(measured(paired(groupByCase(toBeLog),
                                                 groupByCaseBy(asIsLog, sortImplAsIs))))))

(***************************************************************************)
(* lib/playback.ts.  A Pos is [x |-> number, y |-> number]; a node is a    *)
(* record with the fields id and position and, when they are set, width,   *)
(* height and measured, its numbers being integers.                        *)
(***************************************************************************)
\* 2 * t * t for every t
easeInQuad(t) == NumMul(NumMul(NumFromInt(2), t), t)

\* Math.pow(x, 2), taken for x * x, which is exact for the arguments it is
\* used with
pow2(x) == NumMul(x, x)

\* t < 0.5 ? 2 * t * t : 1 - Math.pow(-2 * t + 2, 2) / 2
easeInOutQuad(t) ==
    IF NumLess(t, NumDivInt(NumFromInt(1), 2))
    THEN NumMul(NumMul(NumFromInt(2), t), t)
    ELSE NumSub(NumFromInt(1),
                NumDivInt(pow2(NumAdd(NumMul(NumFromInt(-2), t), NumFromInt(2))), 2))

\* u * u * c0 + 2 * u * t * c1 + t * t * c2
bezierCoordinate(u, t, c0, c1, c2) ==
    NumAdd(NumAdd(NumMul(NumMul(u, u), c0),
                  NumMul(NumMul(NumMul(NumFromInt(2), u), t), c1)),
           NumMul(NumMul(t, t), c2))

bezierWith(u, p0, p1, p2, t) ==
    [x |-> bezierCoordinate(u, t, p0.x, p1.x, p2.x),
     y |-> bezierCoordinate(u, t, p0.y, p1.y, p2.y)]

\* const u = 1 - t; return {x: ..., y: ...}
bezier2(p0, p1, p2, t) == bezierWith(NumSub(NumFromInt(1), t), p0, p1, p2, t)

null == [null |-> TRUE]

\* the position of the first node, whatever its id
positionOfFirst(ns, id) ==
    IF ns = <<>> THEN null
    ELSE [x |-> NumFromInt(ns[1].position.x), y |-> NumFromInt(ns[1].position.y)]

\* width ?? measured?.width ?? 310 and height ?? measured?.height ?? 84
widthOf(n) ==
    IF "width" \in DOMAIN n THEN n.width
    ELSE IF "measured" \in DOMAIN n THEN n.measured.width ELSE 310
heightOf(n) ==
    IF "height" \in DOMAIN n THEN n.height
    ELSE IF "measured" \in DOMAIN n THEN n.measured.height ELSE 84

\* { x: n.position.x + w / 2, y: n.position.y + h / 2 }
centerOf(n) ==
    [x |-> NumAdd(NumFromInt(n.position.x), NumDivInt(NumFromInt(widthOf(n)), 2)),
     y |-> NumAdd(NumFromInt(n.position.y), NumDivInt(NumFromInt(heightOf(n)), 2))]

centerOfFirst(found) == IF found = <<>> THEN null ELSE centerOf(found[1])

\* nodes.find(x => x.id === id), then the centre of the node found, or null
nodeCenter(ns, id) == centerOfFirst(SelectSeq(ns, LAMBDA x : x.id = id))

\* len || 1
orOne(len) == IF len.nan \/ NumIsZero(len) THEN NumFromInt(1) ELSE len

\* the middle of the segment moved by offset along (nx, ny)
ctrlAt(from, to, nx, ny, offset) ==
    [x |-> NumAdd(NumDivInt(NumAdd(from.x, to.x), 2), NumMul(nx, offset)),
     y |-> NumAdd(NumDivInt(NumAdd(from.y, to.y), 2), NumMul(ny, offset))]

\* nx = -dy / len, ny = dx / len, offset = clamp(len * 0.15, 22, 70)
ctrlOfLength(from, to, dx, dy, len) ==
    ctrlAt(from, to, NumDiv(NumNeg(dy), len), NumDiv(dx, len),
           clampNumber(NumMul(len, NumDivInt(NumFromInt(15), 100)),
                       NumFromInt(22), NumFromInt(70)))

\* len = Math.sqrt(dx * dx + dy * dy) || 1
ctrlOfDelta(from, to, dx, dy) ==
    ctrlOfLength(from, to, dx, dy, orOne(NumSqrt(NumAdd(NumMul(dx, dx), NumMul(dy, dy)))))

\* the control point of the curve: the middle of the segment moved along
\* its normal by clamp(len * 0.15, 22, 70)
curveCtrl(from, to) == ctrlOfDelta(from, to, NumSub(to.x, from.x), NumSub(to.y, from.y))

\* clamp(220, 1600, (260 + Math.max(0, dtMin) * 8) / Math.max(0.4, playSpeed))
durMsOf(a, b, speed) ==
    clampNumber(NumFromInt(220), NumFromInt(1600),
                NumDiv(NumAdd(NumFromInt(260),
                              NumMul(NumMax(NumZero, dtMin(a, b)), NumFromInt(8))),
                       NumMax(NumDivInt(NumFromInt(4), 10), speed)))

\* segs.push({ from, to, ctrl: curveCtrl(from, to), durMs })
segmentOf(p, speed) ==
    [from |-> p.from, to |-> p.to, ctrl |-> curveCtrl(p.from, p.to),
     durMs |-> durMsOf(p.a, p.b, speed)]

\* const a = trace[i]; const b = trace[i + 1]; from and to their centres
centersOf(ns, a, b) ==
    [a |-> a, b |-> b, from |-> nodeCenter(ns, a.activity), to |-> nodeCenter(ns, b.activity)]

\* if (!from || !to) continue
withCenters(pairs) == SelectSeq(pairs, LAMBDA p : p.from # null /\ p.to # null)

segmentsOf(kept, speed) == [k \in 1..Len(kept) |-> segmentOf(kept[k], speed)]

computePlaybackSegments(tr, ns, speed) ==
    IF Len(tr) < 2 THEN <<>>
    ELSE segmentsOf(withCenters([k \in 1..(Len(tr) - 1) |-> centersOf(ns, tr[k], tr[k + 1])]),
                    speed)

posOnSegment(seg, t01) == bezier2(seg.from, seg.ctrl, seg.to, easeInOutQuad(t01))

(***************************************************************************)
(* simulatePairedLog, one action per step.                                 *)
(***************************************************************************)
Seeds == {7, 20260201}
Probabilities == {[n |-> 0, d |-> 10], [n |-> 5, d |-> 10], [n |-> 10, d |-> 10]}
Zero == [n |-> 0, d |-> 10]
One  == [n |-> 10, d |-> 10]

NoLog == <<>>
NoResult == [computed |-> FALSE]

SimArgs ==
    [nCases : 0..MaxCases, seed : Seeds, pSkipGate : Probabilities,
     pManual : Probabilities, pUncontrolledLoop : Probabilities]

MiningIdle ==
    /\ events = NoLog
    /\ allowed = {}
    /\ sortImpl = <<>>
    /\ dfg = NoResult
    /\ edgeStats = NoResult
    /\ caseLeadTimes = NoResult
    /\ conf = NoResult
    /\ devTime = NoResult

DeltaIdle ==
    /\ sortImplAsIs = <<>>
    /\ leadTimeDelta = NoResult

PlayIdle ==
    /\ nodes = <<>>
    /\ playSpeed = NumZero
    /\ segs = NoResult
    /\ pos = NoResult

RngIdle ==
    /\ rndTwin = mulberry32(0)
    /\ word = ToUint32(0)
    /\ lastDraw = NoResult

LayIdle ==
    /\ layoutArgs = NoResult
    /\ rfNodes = <<>>
    /\ separated = <<>>

TickIdle ==
    /\ tickSegs = <<>>
    /\ tickSpeed = NumZero
    /\ progRef = [segIdx |-> 0, segT |-> NumZero]

UiIdle == LayIdle /\ TickIdle

SimIdle ==
    /\ args = [nCases |-> 0, seed |-> 0, pSkipGate |-> Zero, pManual |-> Zero,
               pUncontrolledLoop |-> Zero]
    /\ call = 0
    /\ rnd = mulberry32(0)
    /\ i = 0
    /\ toBe = <<>>
    /\ trace = <<>>
    /\ toBeEvents = <<>>
    /\ asIsEvents = <<>>
    /\ returned = <<>>

InitSim ==
    /\ args \in SimArgs
    /\ call = 0
    /\ pc = "idle"
    /\ rnd = mulberry32(0)
    /\ i = 0
    /\ toBe = <<>>
    /\ trace = <<>>
    /\ toBeEvents = <<>>
    /\ asIsEvents = <<>>
    /\ returned = <<>>
    /\ MiningIdle
    /\ traces = NoResult
    /\ DeltaIdle
    /\ PlayIdle
    /\ RngIdle
    /\ UiIdle

\* const rnd = mulberry32(seed); const toBeEvents = []; const asIsEvents = [];
CallSimulate ==
    /\ pc = "idle"
    /\ call < 2
    /\ call' = call + 1
    /\ rnd' = mulberry32(args.seed)
    /\ toBeEvents' = <<>>
    /\ asIsEvents' = <<>>
    /\ i' = 1
    /\ pc' = "loop"
    /\ UNCHANGED <<args, toBe, trace, returned, mineVars, extVars>>

\* i <= nCases: caseId, start, toBe = genToBeCase(...); injectAsIsNoise is
\* entered with trace = [...base]
GenToBeCase ==
    /\ pc = "loop"
    /\ i <= args.nCases
    /\ \E t1 \in {rndAdvance(rnd)} :
       \E gen \in {genToBeCase(caseIdOf(i),
                               addMinutes(baseStart, RoundTimes(rndValue(t1), 60 * 24 * 5)),
                               t1)} :
           /\ toBe' = gen.events
           /\ trace' = gen.events
           /\ rnd' = gen.rnd
    /\ pc' = "skipGates"
    /\ UNCHANGED <<args, call, i, toBeEvents, asIsEvents, returned, mineVars, extVars>>

\* injectAsIsNoise: the three calls of maybeRemove
SkipGates ==
    /\ pc = "skipGates"
    /\ \E s \in {maybeRemove(maybeRemove(maybeRemove([rnd |-> rnd, trace |-> trace],
                                                     Gate1, args.pSkipGate),
                                         Gate2, args.pSkipGate),
                             Gate3, args.pSkipGate)} :
           trace' = s.trace /\ rnd' = s.rnd
    /\ pc' = "manualExport"
    /\ UNCHANGED <<args, call, i, toBe, toBeEvents, asIsEvents, returned, mineVars, extVars>>

\* injectAsIsNoise: if (rnd() < pManual) {...}
ManualExportStep ==
    /\ pc = "manualExport"
    /\ \E s \in {manualTransfer([rnd |-> rnd, trace |-> trace], args.pManual,
                                Verse360, ManualExport, 10, 35)} :
           trace' = s.trace /\ rnd' = s.rnd
    /\ pc' = "manualSync"
    /\ UNCHANGED <<args, call, i, toBe, toBeEvents, asIsEvents, returned, mineVars, extVars>>

\* injectAsIsNoise: if (rnd() < pManual * 0.8) {...}
ManualSyncStep ==
    /\ pc = "manualSync"
    /\ \E s \in {manualTransfer([rnd |-> rnd, trace |-> trace],
                                TimesEightTenths(args.pManual), Zoom, ManualSync, 12, 40)} :
           trace' = s.trace /\ rnd' = s.rnd
    /\ pc' = "uncontrolledLoop"
    /\ UNCHANGED <<args, call, i, toBe, toBeEvents, asIsEvents, returned, mineVars, extVars>>

\* injectAsIsNoise: if (rnd() < pUncontrolledLoop) {...}, with maxLoops: 3
UncontrolledLoopStep ==
    /\ pc = "uncontrolledLoop"
    /\ \E s \in {uncontrolledLoop([rnd |-> rnd, trace |-> trace],
                                  args.pUncontrolledLoop, 3)} :
           trace' = s.trace /\ rnd' = s.rnd
    /\ pc' = "sort"
    /\ UNCHANGED <<args, call, i, toBe, toBeEvents, asIsEvents, returned, mineVars, extVars>>

\* injectAsIsNoise: trace.sort(...); return trace; then
\* toBeEvents.push(...toBe); asIsEvents.push(...asIs); i++
SortAndPush ==
    /\ pc = "sort"
    /\ trace' = sortTrace(trace)
    /\ toBeEvents' = toBeEvents \o toBe
    /\ asIsEvents' = asIsEvents \o trace'
    /\ i' = i + 1
    /\ pc' = "loop"
    /\ UNCHANGED <<args, call, rnd, toBe, returned, mineVars, extVars>>

\* i > nCases: return { toBeEvents, asIsEvents }
ReturnSimulate ==
    /\ pc = "loop"
    /\ i > args.nCases
    /\ returned' = Append(returned, [toBeEvents |-> toBeEvents, asIsEvents |-> asIsEvents])
    /\ pc' = "idle"
    /\ UNCHANGED <<args, call, rnd, i, toBe, trace, toBeEvents, asIsEvents, mineVars, extVars>>

\* computeConformanceSummary(toBeEvents or asIsEvents, buildAllowedEdgeSet(TO_BE))
\* on the logs of the last return
ConformanceOfReturned ==
    /\ pc = "idle"
    /\ Len(returned) >= 1
    /\ \E log \in {returned[Len(returned)].toBeEvents, returned[Len(returned)].asIsEvents} :
          /\ events' = log
          /\ allowed' = buildAllowedEdgeSet(TO_BE)
          /\ conf' = computeConformanceSummary(log, buildAllowedEdgeSet(TO_BE))
    /\ UNCHANGED <<pc, simVars, extVars, sortImpl, dfg, edgeStats, caseLeadTimes, devTime>>

NextSim ==
    \/ CallSimulate
    \/ GenToBeCase
    \/ SkipGates
    \/ ManualExportStep
    \/ ManualSyncStep
    \/ UncontrolledLoopStep
    \/ SortAndPush
    \/ ReturnSimulate
    \/ ConformanceOfReturned

SpecSim == InitSim /\ [][NextSim]_vars

(***************************************************************************)
(* Claims about simulatePairedLog, checked under SpecSim.                  *)
(***************************************************************************)
AllZero == args.pSkipGate = Zero /\ args.pManual = Zero /\ args.pUncontrolledLoop = Zero
OnlyLoop == args.pSkipGate = Zero /\ args.pManual = Zero /\ args.pUncontrolledLoop = One

\* the case ids occurring in a log
caseIdsOf(evs) == {evs[k].case_id : k \in 1..Len(evs)}

\* the events of one case of a log, in the order of the log
eventsOfCase(evs, id) == SelectSeq(evs, LAMBDA e : e.case_id = id)

\* C1: two calls of simulatePairedLog with the same arguments return the
\* same toBeEvents and the same asIsEvents, event for event and field for
\* field, in the same order.
C1_Determinism ==
    Len(returned) = 2 => returned[1] = returned[2]

\* C1 happens: a second call has returned logs that went through skips,
\* manual transfers and loops.
C1_Witness ==
    /\ Len(returned) = 2
    /\ args.nCases = MaxCases
    /\ args.pSkipGate = [n |-> 5, d |-> 10]
    /\ args.pManual = One
    /\ args.pUncontrolledLoop = One
    /\ Len(returned[2].asIsEvents) > Len(returned[2].toBeEvents)

\* C2: in every returned pair of logs the case ids of toBeEvents are those of
\* asIsEvents, and each log has exactly nCases distinct case ids.
C2_CaseIdPairing ==
    \A r \in 1..Len(returned) :
        /\ caseIdsOf(returned[r].toBeEvents) = caseIdsOf(returned[r].asIsEvents)
        /\ Cardinality(caseIdsOf(returned[r].toBeEvents)) = args.nCases
        /\ Cardinality(caseIdsOf(returned[r].asIsEvents)) = args.nCases

\* C2 happens: logs of MaxCases cases were returned with every gate skipped.
C2_Witness ==
    /\ Len(returned) >= 1
    /\ args.nCases = MaxCases
    /\ args.pSkipGate = One
    /\ Len(returned[1].asIsEvents) < Len(returned[1].toBeEvents)

\* C3: with the three probabilities 0 the AS-IS events of each case are the
\* TO-BE events of the case, unchanged and in the same order.
C3_NoNoise ==
    AllZero =>
        \A r \in 1..Len(returned) :
            \A id \in caseIdsOf(returned[r].toBeEvents) \cup caseIdsOf(returned[r].asIsEvents) :
                eventsOfCase(returned[r].asIsEvents, id) = eventsOfCase(returned[r].toBeEvents, id)

\* C3 happens: logs of MaxCases cases were returned with the three
\* probabilities 0.
C3_Witness ==
    /\ AllZero
    /\ Len(returned) >= 1
    /\ args.nCases = MaxCases
    /\ Len(returned[1].asIsEvents) = 14 * MaxCases

\* C4, as stated: with the three probabilities 0, computeConformanceSummary
\* of a returned log against buildAllowedEdgeSet(TO_BE) gives conformance 100
\* and badEdges 0.
C4_FullConformance ==
    (AllZero /\ conf.computed) => (conf.conformance = 100 /\ conf.badEdges = 0)

\* what the code gives instead: one bad edge for each case, the one from
\* Gate 2 to BE - Secteur, and 92 for every log with a case
C4_Observed ==
    (AllZero /\ conf.computed) =>
        /\ conf.badEdges = args.nCases
        /\ conf.totalEdges = 13 * args.nCases
        /\ conf.conformance = IF args.nCases = 0 THEN 100 ELSE 92

\* C4's case happens: the conformance of the AS-IS log of MaxCases cases was
\* computed with the three probabilities 0.
C4_Witness ==
    /\ AllZero
    /\ conf.computed
    /\ args.nCases = MaxCases
    /\ events = returned[Len(returned)].asIsEvents

\* the number of events of an activity in a sequence of events
countActivity(evs, activity) == Cardinality({k \in 1..Len(evs) : evs[k].activity = activity})

\* C5: with pUncontrolledLoop = 1 and the other probabilities 0, every AS-IS
\* case has the loop trigger at least twice, and for nCases >= 1 the
\* conformance of the AS-IS log against the TO-BE edges is below 100.
C5_ForcedLoop ==
    OnlyLoop =>
        /\ \A r \in 1..Len(returned) :
              \A id \in caseIdsOf(returned[r].asIsEvents) :
                  countActivity(eventsOfCase(returned[r].asIsEvents, id), Zoom) >= 2
        /\ (/\ conf.computed
            /\ Len(returned) >= 1
            /\ events = returned[Len(returned)].asIsEvents
            /\ args.nCases >= 1) => conf.conformance < 100

\* C5 happens: the conformance of an AS-IS log of MaxCases looped cases was
\* computed.
C5_Witness ==
    /\ OnlyLoop
    /\ conf.computed
    /\ args.nCases = MaxCases
    /\ events = returned[Len(returned)].asIsEvents
    /\ Len(events) > 14 * MaxCases

(***************************************************************************)
(* The mining engine on hand-built logs.                                   *)
(***************************************************************************)
CaseIds == {"c1", "c2"}
Activities == {"A", "B"}
\* timestamps 0 s, 39 s and 78 s after the base instant, and an unparsable one
Timestamps == {<<0>>, <<39>>, <<78>>, <<>>}
LogEvents == [case_id : CaseIds, activity : Activities, timestamp : Timestamps]

\* every log of at most MaxLogLen events
SmallLogs == UNION {[1..n -> LogEvents] : n \in 0..MaxLogLen}

\* three events 0 s, 39 s and 78 s after the base instant, of any cases and
\* activities
ThreeTimes == <<0, 39, 78>>
ThreeEventLogs ==
    {[k \in 1..3 |-> [case_id |-> ids[k], activity |-> acts[k], timestamp |-> <<ThreeTimes[k]>>]] :
        ids \in [1..3 -> CaseIds], acts \in [1..3 -> Activities]}

\* the orders of n elements
Orders(n) == {f \in [1..n -> 1..n] : \A j, k \in 1..n : j # k => f[j] # f[k]}
Identity(n) == [k \in 1..n |-> k]

\* one case with events at minutes 0, 10 and 25, in every insertion order
ExampleTimes == <<0, 600, 1500>>
ExampleLogs ==
    {[k \in 1..3 |-> [case_id |-> "c1", activity |-> "A",
                      timestamp |-> <<ExampleTimes[order[k]]>>]] :
        order \in Orders(3)}

\* one case with four events 0 s, 39 s, 78 s and 84 s after the base instant
FourTimes == <<0, 39, 78, 84>>
FourEventLogs ==
    {[k \in 1..4 |-> [case_id |-> "c1", activity |-> acts[k], timestamp |-> <<FourTimes[k]>>]] :
        acts \in [1..4 -> Activities]}

\* one case with LongLen events a minute apart, the first LongLen - 17 of
\* activity A and the last 17 of activity B
LongLog ==
    [k \in 1..LongLen |-> [case_id |-> "c1",
                           activity |-> IF k <= LongLen - 17 THEN "A" ELSE "B",
                           timestamp |-> <<60 * k>>]]

\* two cases, one of the single activity "A → B" and one of the activities
\* "A" and "B"
SeparatorLogs ==
    {<<[case_id |-> "c1", activity |-> "A → B", timestamp |-> <<0>>],
       [case_id |-> "c2", activity |-> "A", timestamp |-> <<0>>],
       [case_id |-> "c2", activity |-> "B", timestamp |-> <<39>>]>>}

\* one case of three events, the one in the middle with a timestamp that
\* does not parse and the last one earlier than the first
UnparsableLogs ==
    {[k \in 1..3 |-> [case_id |-> "c1", activity |-> acts[k],
                      timestamp |-> <<<<78>>, <<>>, <<0>>>>[k]]] :
        acts \in [1..3 -> Activities]}

AllowedSets == {{}, {"A -> A"}, {"A -> A", "A -> B", "B -> A", "B -> B"}}

\* the events of the p-th case id of a log, in insertion order
caseEvents(evs, p) ==
    LET ids == InsertionOrder([j \in 1..Len(evs) |-> evs[j].case_id])
    IN  SelectSeq(evs, LAMBDA e : e.case_id = ids[p])

numCases(evs) == Len(InsertionOrder([j \in 1..Len(evs) |-> evs[j].case_id]))

\* what the engine's sort may do with an array: the stable order when the
\* comparator is consistent, any order otherwise
SortChoices(arr) ==
    IF ConsistentComparator(arr) THEN {Identity(Len(arr))} ELSE Orders(Len(arr))

\* what the engine's sort may do with each case of a log
SortImpls(evs) ==
    {f \in [1..numCases(evs) ->
                UNION {SortChoices(caseEvents(evs, p)) : p \in 1..numCases(evs)}] :
        \A p \in 1..numCases(evs) : f[p] \in SortChoices(caseEvents(evs, p))}

InitMine ==
    /\ events \in SmallLogs \cup ThreeEventLogs \cup ExampleLogs \cup FourEventLogs
                     \cup {LongLog} \cup UnparsableLogs \cup SeparatorLogs
    /\ allowed \in AllowedSets
    /\ sortImpl \in SortImpls(events)
    /\ dfg = NoResult
    /\ edgeStats = NoResult
    /\ caseLeadTimes = NoResult
    /\ conf = NoResult
    /\ devTime = NoResult
    /\ traces = NoResult
    /\ pc = "buildDFG"
    /\ SimIdle
    /\ DeltaIdle
    /\ PlayIdle
    /\ RngIdle
    /\ UiIdle

BuildDFG ==
    /\ pc = "buildDFG"
    /\ dfg' = buildDFG(events)
    /\ pc' = "computeEdgeStats"
    /\ UNCHANGED <<simVars, extVars, events, allowed, sortImpl, edgeStats, caseLeadTimes, conf, devTime>>

ComputeEdgeStats ==
    /\ pc = "computeEdgeStats"
    /\ edgeStats' = computeEdgeStats(events)
    /\ pc' = "computeCaseLeadTimes"
    /\ UNCHANGED <<simVars, extVars, events, allowed, sortImpl, dfg, caseLeadTimes, conf, devTime>>

ComputeCaseLeadTimes ==
    /\ pc = "computeCaseLeadTimes"
    /\ caseLeadTimes' = computeCaseLeadTimes(events)
    /\ pc' = "computeConformanceSummary"
    /\ UNCHANGED <<simVars, extVars, events, allowed, sortImpl, dfg, edgeStats, conf, devTime>>

ComputeConformanceSummary ==
    /\ pc = "computeConformanceSummary"
    /\ conf' = computeConformanceSummary(events, allowed)
    /\ pc' = "computeDeviationTime"
    /\ UNCHANGED <<simVars, extVars, events, allowed, sortImpl, dfg, edgeStats, caseLeadTimes, devTime>>

ComputeDeviationTime ==
    /\ pc = "computeDeviationTime"
    /\ devTime' = computeDeviationTime(events, allowed)
    /\ pc' = "computeTraces"
    /\ UNCHANGED <<simVars, extVars, events, allowed, sortImpl, dfg, edgeStats, caseLeadTimes, conf>>

ComputeTraces ==
    /\ pc = "computeTraces"
    /\ traces' = computeTraces(events)
    /\ pc' = "done"
    /\ UNCHANGED <<simVars, mineVars, deltaVars, playVars, rngVars, uiVars>>

NextMine ==
    \/ BuildDFG
    \/ ComputeEdgeStats
    \/ ComputeCaseLeadTimes
    \/ ComputeConformanceSummary
    \/ ComputeDeviationTime
    \/ ComputeTraces

SpecMine == InitMine /\ [][NextMine]_vars

(***************************************************************************)
(* Claims about the mining engine, checked under SpecMine.                 *)
(***************************************************************************)
\* the sum of the field count of the entries of a sequence
sumOfCounts(seq) == SumBetween([k \in 1..Len(seq) |-> seq[k].count], 1, Len(seq))

\* the number of within-case adjacent pairs of a log: the events less one
\* for each case
withinCasePairs(evs) == Len(evs) - Cardinality(caseIdsOf(evs))

\* every timestamp of the log parses
wellFormed(evs) == \A k \in 1..Len(evs) : DateValue(evs[k].timestamp).finite

\* C6: the counts of the edges of buildDFG sum to the sum over the cases of
\* (events of the case - 1), the counts of the nodes sum to the number of
\* events, and there is exactly one node for each distinct activity.
C6_DfgCounts ==
    dfg.computed =>
        /\ sumOfCounts(dfg.edges) = withinCasePairs(events)
        /\ sumOfCounts(dfg.nodes) = Len(events)
        /\ {dfg.nodes[k].id : k \in 1..Len(dfg.nodes)} = {events[k].activity : k \in 1..Len(events)}
        /\ \A j, k \in 1..Len(dfg.nodes) : j # k => dfg.nodes[j].id # dfg.nodes[k].id

\* C6 happens: the DFG of a log of two cases, one of them with two events,
\* was built.
C6_Witness ==
    /\ dfg.computed
    /\ Len(events) = 3
    /\ Cardinality(caseIdsOf(events)) = 2
    /\ events[1].case_id # events[2].case_id
    /\ Len(dfg.edges) = 1

\* the integer nearest to 100 * good / total, halves upwards
roundedPercent(good, total) == (200 * good + total) \div (2 * total)

\* C7, as stated: totalEdges is the number of within-case adjacent pairs,
\* badEdges the number of those whose key is not in allowed, and conformance
\* is (totalEdges - badEdges) / totalEdges * 100 rounded, 100 when there is
\* no pair.
C7_ConformanceSummary ==
    conf.computed =>
        LET pairs == adjacentPairs(groupByCase(events), 1)
            bad   == Cardinality({k \in 1..Len(pairs) : pairKey(pairs[k]) \notin allowed})
        IN  /\ conf.totalEdges = withinCasePairs(events)
            /\ conf.badEdges = bad
            /\ 0 <= conf.badEdges /\ conf.badEdges <= conf.totalEdges
            /\ conf.conformance = IF conf.totalEdges = 0 THEN 100
                                  ELSE roundedPercent(conf.totalEdges - conf.badEdges,
                                                      conf.totalEdges)

\* C7's case happens: the conformance of a log with allowed and not allowed
\* pairs was computed.
C7_Witness ==
    /\ conf.computed
    /\ conf.totalEdges = LongLen - 1
    /\ conf.badEdges = 17

\* what C8 states of one result: p95 >= median >= 0, and with one duration
\* the mean, the median and the p95 are that duration
percentilesOrdered(r, single) ==
    r.count >= 1 =>
        /\ NumGeq(r.p95Min, r.medianMin)
        /\ NumGeq(r.medianMin, NumZero)
        /\ r.count = 1 => (r.meanMin = single /\ r.medianMin = single /\ r.p95Min = single)

\* the duration in minutes between the earliest and the latest event of a
\* case whose timestamps all parse
leadTimeOf(evs, id) ==
    LET times == {DateValue(evs[k].timestamp).v : k \in {j \in 1..Len(evs) : evs[j].case_id = id}}
    IN  NumDivInt(NumFromInt(SetMax(times) - (CHOOSE x \in times : \A y \in times : x <= y)), 60)

\* C8, as stated: for every edge of computeEdgeStats with count >= 1 and for
\* computeCaseLeadTimes with count >= 1, p95Min >= medianMin >= 0, and with
\* count = 1 the mean, the median and the p95 are the single duration.
C8_PercentileOrder ==
    /\ edgeStats.computed =>
          \A k \in 1..Len(edgeStats.stats) :
              percentilesOrdered(edgeStats.stats[k].value, edgeStats.stats[k].value.totalMin)
    /\ caseLeadTimes.computed =>
          /\ caseLeadTimes.count >= 1 =>
                /\ NumGeq(caseLeadTimes.p95Min, caseLeadTimes.medianMin)
                /\ NumGeq(caseLeadTimes.medianMin, NumZero)
          /\ caseLeadTimes.count = 1 =>
                /\ caseLeadTimes.meanMin = caseLeadTimes.medianMin
                /\ caseLeadTimes.medianMin = caseLeadTimes.p95Min

\* C8's case happens: the statistics of an edge with two durations were
\* computed.
C8_Witness ==
    /\ edgeStats.computed
    /\ \E k \in 1..Len(edgeStats.stats) : edgeStats.stats[k].value.count = 2

\* the cases of a log with at least two events
longCases(evs) ==
    {id \in caseIdsOf(evs) : Cardinality({k \in 1..Len(evs) : evs[k].case_id = id}) >= 2}

TwentyFive == NumFromInt(25)

\* C9, as stated: the count of computeCaseLeadTimes is the number of cases
\* with at least two events, and the case with events at minutes 0, 10 and 25
\* gives count 1 and mean, median and p95 25.
C9_LeadTimeCount ==
    caseLeadTimes.computed =>
        /\ caseLeadTimes.count = Cardinality(longCases(events))
        /\ events \in ExampleLogs =>
              /\ caseLeadTimes.count = 1
              /\ caseLeadTimes.meanMin = TwentyFive
              /\ caseLeadTimes.medianMin = TwentyFive
              /\ caseLeadTimes.p95Min = TwentyFive

\* C9, amended: the count is the number of cases with at least two events
\* whose duration from the first to the last event of the sorted trace is
\* finite and not negative; in a log whose timestamps all parse that is every
\* case with at least two events, a single counted case gives its latest
\* timestamp less its earliest as mean, median and p95 whatever the order of
\* insertion, and the case with events at minutes 0, 10 and 25 gives count 1
\* and mean, median and p95 25.
C9_LeadTimeCountWellFormed ==
    caseLeadTimes.computed =>
        LET byCase == groupByCase(events)
        IN  /\ caseLeadTimes.count =
                  Cardinality({p \in 1..Len(byCase) :
                      /\ Len(byCase[p].value) >= 2
                      /\ isFiniteNonNegative(dtMin(byCase[p].value[1],
                                                   byCase[p].value[Len(byCase[p].value)]))})
            /\ wellFormed(events) =>
                  /\ caseLeadTimes.count = Cardinality(longCases(events))
                  /\ caseLeadTimes.count = 1 =>
                        \A id \in longCases(events) :
                            /\ caseLeadTimes.meanMin = leadTimeOf(events, id)
                            /\ caseLeadTimes.medianMin = leadTimeOf(events, id)
                            /\ caseLeadTimes.p95Min = leadTimeOf(events, id)
            /\ events \in ExampleLogs =>
                  /\ caseLeadTimes.count = 1
                  /\ caseLeadTimes.meanMin = TwentyFive
                  /\ caseLeadTimes.medianMin = TwentyFive
                  /\ caseLeadTimes.p95Min = TwentyFive

\* C9 happens: the lead times of the three-event case were computed from a
\* log that holds its latest event first.
C9_Witness ==
    /\ caseLeadTimes.computed
    /\ events \in ExampleLogs
    /\ events[1].timestamp = <<1500>>
    /\ caseLeadTimes.count = 1

\* the sum of totalMin over the edges of computeEdgeStats, in the order of
\* the Map
sumOfEdgeTotals ==
    reduceSum([k \in 1..Len(edgeStats.stats) |-> edgeStats.stats[k].value.totalMin],
              Len(edgeStats.stats))

\* C10, as stated: the totalMin of computeDeviationTime is >= 0 and <= the
\* sum of totalMin over the edges of computeEdgeStats, equal to it when
\* allowed is empty and 0 when every observed key is allowed.
C10_DeviationSubset ==
    (devTime.computed /\ edgeStats.computed) =>
        /\ NumGeq(devTime.totalMin, NumZero)
        /\ NumGeq(sumOfEdgeTotals, devTime.totalMin)
        /\ allowed = {} => devTime.totalMin = sumOfEdgeTotals
        /\ (\A k \in 1..Len(edgeStats.stats) : edgeStats.stats[k].key \in allowed) =>
              devTime.totalMin = NumZero

\* C10's case happens: the deviation time of a log with three durations on
\* two edges was computed with no edge allowed.
C10_Witness ==
    /\ devTime.computed
    /\ allowed = {}
    /\ events \in FourEventLogs
    /\ Len(edgeStats.stats) = 2

(***************************************************************************)
(* computeLeadTimeDelta on hand-built pairs of logs.                       *)
(***************************************************************************)
\* every log of at most MaxLogLen events of one activity
PlainLogs ==
    UNION {[1..n -> [case_id : CaseIds, activity : {"A"}, timestamp : Timestamps]] :
              n \in 0..MaxLogLen}

\* two cases of two events each, the second event 39 s, 78 s or 84 s after
\* the first
TwoCaseLogs ==
    {<<[case_id |-> "c1", activity |-> "A", timestamp |-> <<0>>],
       [case_id |-> "c1", activity |-> "A", timestamp |-> <<a>>],
       [case_id |-> "c2", activity |-> "A", timestamp |-> <<0>>],
       [case_id |-> "c2", activity |-> "A", timestamp |-> <<b>>]>> :
        a \in {39, 78, 84}, b \in {39, 78, 84}}

DeltaLogs ==
    PlainLogs \cup TwoCaseLogs
        \cup {l \in UnparsableLogs : \A k \in 1..3 : l[k].activity = "A"}

InitDelta ==
    /\ toBeEvents \in DeltaLogs
    /\ asIsEvents \in DeltaLogs
    /\ sortImpl \in SortImpls(toBeEvents)
    /\ sortImplAsIs \in SortImpls(asIsEvents)
    /\ leadTimeDelta = NoResult
    /\ pc = "computeLeadTimeDelta"
    /\ args = [nCases |-> 0, seed |-> 0, pSkipGate |-> Zero, pManual |-> Zero,
               pUncontrolledLoop |-> Zero]
    /\ call = 0
    /\ rnd = mulberry32(0)
    /\ i = 0
    /\ toBe = <<>>
    /\ trace = <<>>
    /\ returned = <<>>
    /\ events = NoLog
    /\ allowed = {}
    /\ dfg = NoResult
    /\ edgeStats = NoResult
    /\ caseLeadTimes = NoResult
    /\ conf = NoResult
    /\ devTime = NoResult
    /\ traces = NoResult
    /\ PlayIdle
    /\ RngIdle
    /\ UiIdle

ComputeLeadTimeDelta ==
    /\ pc = "computeLeadTimeDelta"
    /\ leadTimeDelta' = computeLeadTimeDelta(toBeEvents, asIsEvents)
    /\ pc' = "done"
    /\ UNCHANGED <<simVars, mineVars, traces, sortImplAsIs, playVars, rngVars, uiVars>>

NextDelta == ComputeLeadTimeDelta

SpecDelta == InitDelta /\ [][NextDelta]_vars

(***************************************************************************)
(* Claims about computeLeadTimeDelta, checked under SpecDelta.             *)
(***************************************************************************)
\* the case ids with at least two events in each of the two logs
commonLongCases == longCases(toBeEvents) \cap longCases(asIsEvents)

\* max(0, AS-IS lead time - TO-BE lead time) of a case whose timestamps all
\* parse, from its earliest and latest timestamps
deltaOf(id) ==
    LET d == NumSub(leadTimeOf(asIsEvents, id), leadTimeOf(toBeEvents, id))
    IN  IF NumLess(d, NumZero) THEN NumZero ELSE d

\* C11, as stated: the count of computeLeadTimeDelta is the number of case
\* ids with at least two events in each log, totalMin is >= 0, and when no
\* case id has two events in each log nothing is counted.
C11_LeadTimeDelta ==
    leadTimeDelta.computed =>
        /\ leadTimeDelta.count = Cardinality(commonLongCases)
        /\ NumGeq(leadTimeDelta.totalMin, NumZero)
        /\ commonLongCases = {} => leadTimeDelta.totalMin = NumZero

\* C11, amended: the count is the number of case ids with at least two events
\* in each log whose two lead times (last less first event of the sorted
\* trace) are finite; when the timestamps of both logs all parse that is every
\* case id with at least two events in each log, a single counted case gives
\* max(0, AS-IS lead time - TO-BE lead time) as totalMin and no counted case
\* gives more than totalMin; totalMin is >= 0, and 0 when no case id has two
\* events in each log.
C11_LeadTimeDeltaFinite ==
    leadTimeDelta.computed =>
        LET toBeByCase == groupByCase(toBeEvents)
            asIsByCase == groupByCaseBy(asIsEvents, sortImplAsIs)
            finiteLead(tr) == Len(tr) >= 2 /\ ~dtMin(tr[1], tr[Len(tr)]).nan
        IN  /\ leadTimeDelta.count =
                  Cardinality({p \in 1..Len(toBeByCase) :
                      /\ finiteLead(toBeByCase[p].value)
                      /\ finiteLead(mapGet(asIsByCase, toBeByCase[p].key))})
            /\ (wellFormed(toBeEvents) /\ wellFormed(asIsEvents)) =>
                  /\ leadTimeDelta.count = Cardinality(commonLongCases)
                  /\ \A id \in commonLongCases : NumGeq(leadTimeDelta.totalMin, deltaOf(id))
                  /\ leadTimeDelta.count = 1 =>
                        \A id \in commonLongCases : leadTimeDelta.totalMin = deltaOf(id)
            /\ NumGeq(leadTimeDelta.totalMin, NumZero)
            /\ commonLongCases = {} =>
                  leadTimeDelta.count = 0 /\ leadTimeDelta.totalMin = NumZero

\* C11 happens: the delta of a TO-BE log of two cases and an AS-IS log that
\* holds one of them, slower, was computed.
C11_Witness ==
    /\ leadTimeDelta.computed
    /\ toBeEvents \in TwoCaseLogs
    /\ caseIdsOf(asIsEvents) = {"c1"}
    /\ leadTimeDelta.count = 1
    /\ NumLess(NumZero, leadTimeDelta.totalMin)

(***************************************************************************)
(* Claims about computeTraces, checked under SpecMine.                     *)
(***************************************************************************)
\* the activity sequence of a case in the result of computeTraces
sequenceOf(id) ==
    traces.caseTrace[CHOOSE p \in 1..Len(traces.caseTrace) : traces.caseTrace[p].key = id].value

\* what C12 states besides the grouping: the counts of the variants sum to the
\* number of cases, each sampleCase is a case of the log whose joined sequence
\* is the variant, and the counts do not increase along the variants
variantsWellFormed ==
    /\ sumOfCounts(traces.variants) = Cardinality(caseIdsOf(events))
    /\ \A q \in 1..Len(traces.variants) :
          /\ traces.variants[q].sampleCase \in caseIdsOf(events)
          /\ join(sequenceOf(traces.variants[q].sampleCase), " → ") = traces.variants[q].variant
    /\ \A q \in 1..(Len(traces.variants) - 1) :
          traces.variants[q].count >= traces.variants[q + 1].count

\* C12, as stated: there is one variant for each distinct activity sequence
\* of the log, counting the cases whose sequence is that of its sampleCase
\* (two cases are in the same variant exactly when their sequences are
\* identical); the counts sum to the number of cases; each sampleCase is a
\* case of the log with the variant's sequence; the counts do not increase.
C12_Variants ==
    traces.computed =>
        /\ Len(traces.variants) = Cardinality({sequenceOf(id) : id \in caseIdsOf(events)})
        /\ \A q \in 1..Len(traces.variants) :
              traces.variants[q].count =
                  Cardinality({id \in caseIdsOf(events) :
                      sequenceOf(id) = sequenceOf(traces.variants[q].sampleCase)})
        /\ variantsWellFormed

\* what the code does: the variants are the distinct joined sequences
C12_Observed ==
    traces.computed =>
        /\ Len(traces.variants) =
              Cardinality({join(sequenceOf(id), " → ") : id \in caseIdsOf(events)})
        /\ variantsWellFormed
        /\ (\A k \in 1..Len(events) : events[k].activity \in Activities) => C12_Variants

\* C12's case happens: the traces of two cases with different activity
\* sequences were computed into one variant.
C12_Witness ==
    /\ traces.computed
    /\ Len(traces.variants) = 1
    /\ traces.variants[1].count = 2
    /\ \E c, d \in caseIdsOf(events) : sequenceOf(c) # sequenceOf(d)

(***************************************************************************)
(* computePlaybackSegments and posOnSegment on hand-built traces and       *)
(* graphs.                                                                 *)
(***************************************************************************)
\* an event 10 minutes after the base instant followed by one at the same
\* instant, 210 minutes later, 10 minutes earlier or at an unparsable one
SecondTimestamps == {<<600>>, <<13200>>, <<0>>, <<>>}
TwoEventTraces ==
    {<<[case_id |-> "c1", activity |-> a, timestamp |-> <<600>>],
       [case_id |-> "c1", activity |-> b, timestamp |-> t]>> :
        a \in Activities, b \in Activities, t \in SecondTimestamps}
\* three events 0, 10 and 210 minutes after the base instant
PlayTimes == <<0, 600, 12600>>
ThreeEventTraces ==
    {[k \in 1..3 |-> [case_id |-> "c1", activity |-> acts[k], timestamp |-> <<PlayTimes[k]>>]] :
        acts \in [1..3 -> Activities]}
PlayTraces ==
    {<<>>} \cup {<<[case_id |-> "c1", activity |-> a, timestamp |-> <<0>>]>> : a \in Activities}
    \cup TwoEventTraces \cup ThreeEventTraces

\* the nodes of A and B at (0, 0) and (100, 0), of the default size
TwoNodes ==
    <<[id |-> "A", position |-> [x |-> 0, y |-> 0]],
      [id |-> "B", position |-> [x |-> 100, y |-> 0]]>>
\* a graph without a node of B
OnlyA == <<[id |-> "A", position |-> [x |-> 0, y |-> 0], width |-> 200, height |-> 60]>>
\* nodes with a size of their own, or a measured one
SizedNodes ==
    <<[id |-> "A", position |-> [x |-> 0, y |-> 0], width |-> 200, height |-> 60,
       measured |-> [width |-> 1, height |-> 1]],
      [id |-> "B", position |-> [x |-> 30, y |-> 40],
       measured |-> [width |-> 101, height |-> 51]]>>
Layouts == {<<>>, TwoNodes, OnlyA, SizedNodes}

\* the speeds 0.25, 1 and 4
PlaySpeeds == {NumDivInt(NumFromInt(n), 4) : n \in {1, 4, 16}}

\* the progress t01 = h / 2 on a segment
Halves == 0..2

InitPlay ==
    /\ pc = "computePlaybackSegments"
    /\ trace \in PlayTraces
    /\ nodes \in Layouts
    /\ playSpeed \in PlaySpeeds
    /\ segs = NoResult
    /\ pos = NoResult
    /\ args = [nCases |-> 0, seed |-> 0, pSkipGate |-> Zero, pManual |-> Zero,
               pUncontrolledLoop |-> Zero]
    /\ call = 0
    /\ rnd = mulberry32(0)
    /\ i = 0
    /\ toBe = <<>>
    /\ toBeEvents = <<>>
    /\ asIsEvents = <<>>
    /\ returned = <<>>
    /\ MiningIdle
    /\ traces = NoResult
    /\ DeltaIdle
    /\ RngIdle
    /\ UiIdle

ComputePlaybackSegments ==
    /\ pc = "computePlaybackSegments"
    /\ segs' = [computed |-> TRUE, value |-> computePlaybackSegments(trace, nodes, playSpeed)]
    /\ pc' = "posOnSegment"
    /\ UNCHANGED <<simVars, mineVars, traces, deltaVars, nodes, playSpeed, pos, rngVars, uiVars>>

PosOnSegment ==
    /\ pc = "posOnSegment"
    /\ \E k \in 1..Len(segs.value), h \in Halves :
           pos' = [computed |-> TRUE, seg |-> k, half |-> h,
                   value |-> posOnSegment(segs.value[k], NumDivInt(NumFromInt(h), 2))]
    /\ pc' = "done"
    /\ UNCHANGED <<simVars, mineVars, traces, deltaVars, nodes, playSpeed, segs, rngVars, uiVars>>

NextPlay == ComputePlaybackSegments \/ PosOnSegment

SpecPlay == InitPlay /\ [][NextPlay]_vars

(***************************************************************************)
(* Claims about the playback, checked under SpecPlay.                      *)
(***************************************************************************)
hasNode(id) == \E j \in 1..Len(nodes) : nodes[j].id = id

\* the positions in the trace of the pairs of consecutive events whose two
\* activities have a node, in order
pairsWithNodes ==
    LET positions == [k \in 1..(Len(trace) - 1) |-> k]
    IN  SelectSeq(positions,
                  LAMBDA k : hasNode(trace[k].activity) /\ hasNode(trace[k + 1].activity))

\* C13: computePlaybackSegments returns one segment for each pair of
\* consecutive events whose two activities have a node, in the order of the
\* trace and from the centre of the first node to the centre of the second:
\* a pair with a missing node is left out and the others are kept, and a
\* trace of fewer than two events gives no segment.
C13_SegmentCount ==
    segs.computed =>
        /\ Len(segs.value) = Len(pairsWithNodes)
        /\ Len(trace) < 2 => segs.value = <<>>
        /\ \A k \in 1..Len(segs.value) :
               /\ k <= Len(pairsWithNodes)
               /\ segs.value[k].from = nodeCenter(nodes, trace[pairsWithNodes[k]].activity)
               /\ segs.value[k].to = nodeCenter(nodes, trace[pairsWithNodes[k] + 1].activity)

\* a trace of three events whose first pair lacks a node and whose second
\* pair gave the only segment
C13_Witness ==
    /\ segs.computed
    /\ Len(trace) = 3
    /\ ~hasNode(trace[1].activity)
    /\ Len(segs.value) = 1
    /\ segs.value[1].from = nodeCenter(nodes, trace[2].activity)

\* (260 + 8 * max(0, gapMinutes)) / max(0.4, playSpeed) for the events at the
\* positions p and p + 1 of the trace, clamped into [220, 1600]
clampedDurMs(p) ==
    clampNumber(NumDiv(NumAdd(NumFromInt(260),
                              NumMul(NumFromInt(8), NumMax(NumZero, dtMin(trace[p], trace[p + 1])))),
                       NumMax(NumDivInt(NumFromInt(4), 10), playSpeed)),
                NumFromInt(220), NumFromInt(1600))

\* C14: the durMs of each segment is (260 + 8 * max(0, gapMinutes)) /
\* max(0.4, playSpeed) clamped into [220, 1600], for the gap between the two
\* events of the segment; a gap of 0 minutes at speed 1 gives 260 ms.
C14_DurMs ==
    segs.computed =>
        \A k \in 1..Len(segs.value) :
            /\ segs.value[k].durMs = clampedDurMs(pairsWithNodes[k])
            /\ (playSpeed = NumFromInt(1)
                    /\ trace[pairsWithNodes[k]].timestamp = trace[pairsWithNodes[k] + 1].timestamp
                    /\ trace[pairsWithNodes[k]].timestamp # <<>>)
               => segs.value[k].durMs = NumFromInt(260)

\* what the code does: clamp(220, 1600, x) is Math.max(1600, Math.min(x, 220)),
\* so durMs is 1600 whatever the gap and the speed, and NaN when a timestamp
\* of the pair does not parse
C14_Observed ==
    segs.computed =>
        \A k \in 1..Len(segs.value) :
            segs.value[k].durMs =
                IF dtMin(trace[pairsWithNodes[k]], trace[pairsWithNodes[k] + 1]).nan
                THEN NumNaN ELSE NumFromInt(1600)

\* two events at the same instant, played at speed 1: the segment lasts
\* 1600 ms
C14_Witness ==
    /\ segs.computed
    /\ playSpeed = NumFromInt(1)
    /\ Len(trace) = 2
    /\ trace[1].timestamp = <<600>>
    /\ trace[2].timestamp = <<600>>
    /\ Len(segs.value) = 1
    /\ segs.value[1].durMs = NumFromInt(1600)

\* 0.25 * from + 0.5 * ctrl + 0.25 * to on each coordinate
bezierHalf(seg) ==
    LET at(c0, c1, c2) ==
            NumAdd(NumAdd(NumMul(NumDivInt(NumFromInt(1), 4), c0),
                          NumMul(NumDivInt(NumFromInt(1), 2), c1)),
                   NumMul(NumDivInt(NumFromInt(1), 4), c2))
    IN  [x |-> at(seg.from.x, seg.ctrl.x, seg.to.x), y |-> at(seg.from.y, seg.ctrl.y, seg.to.y)]

\* C15: a trace of two events whose activities have their nodes at (0, 0)
\* and (100, 0) gives exactly one segment, and posOnSegment gives the start
\* of a segment at t = 0, its end at t = 1 and at t = 0.5 the point
\* 0.25 * from + 0.5 * ctrl + 0.25 * to of its curve.
C15_PosOnSegment ==
    /\ (segs.computed /\ nodes = TwoNodes /\ Len(trace) = 2) => Len(segs.value) = 1
    /\ pos.computed =>
          /\ pos.half = 0 => pos.value = segs.value[pos.seg].from
          /\ pos.half = 2 => pos.value = segs.value[pos.seg].to
          /\ pos.half = 1 => pos.value = bezierHalf(segs.value[pos.seg])

\* the scenario, from the node of A at (0, 0) to the node of B at (100, 0):
\* the curve goes from (155, 42) to (255, 42) and is at (205, 53) at t = 0.5
C15_Witness ==
    /\ pos.computed
    /\ nodes = TwoNodes
    /\ Len(trace) = 2
    /\ trace[1].activity = "A"
    /\ trace[2].activity = "B"
    /\ segs.value[1].from = [x |-> NumFromInt(155), y |-> NumFromInt(42)]
    /\ segs.value[1].to = [x |-> NumFromInt(255), y |-> NumFromInt(42)]
    /\ pos.half = 1
    /\ pos.value = [x |-> NumFromInt(205), y |-> NumFromInt(53)]

(***************************************************************************)
(* mulberry32 on its own: two closures built from the same seed are called *)
(* in step, next to a 32-bit integer that is advanced by 0x6d2b79f5        *)
(* modulo 2^32.  The closures are called one call at a time, or many calls *)
(* at once while t stays below 2^53.                                       *)
(***************************************************************************)
MaxDraws == 8   \* the calls made one at a time are at most MaxDraws

RngSeeds == {0, 7, -1, 20260201}
ManyCalls == {60000, 2500, 100, 4}

\* the calls made at once: as many as keep t below 2^53
fitting(t) == {k \in ManyCalls : rndAdvanceBy(t, k).top < 2^21}

\* the 32-bit integer after k advances by 0x6d2b79f5 modulo 2^32
wordAfter(w, k) == rndAdvanceBy([top |-> 0, w |-> w], k).w

\* what a call returns, for the two closures and for the 32-bit integer
returnedBy(t, twin, w) ==
    [computed |-> TRUE, value |-> rndValue(t), twin |-> rndValue(twin),
     reference |-> rndValue([top |-> 0, w |-> w])]

InitRng ==
    /\ pc = "rnd"
    /\ args \in {[nCases |-> 0, seed |-> s, pSkipGate |-> Zero, pManual |-> Zero,
                  pUncontrolledLoop |-> Zero] : s \in RngSeeds}
    /\ call = 0
    /\ rnd = mulberry32(args.seed)
    /\ rndTwin = mulberry32(args.seed)
    /\ word = ToUint32(args.seed)
    /\ lastDraw = NoResult
    /\ i = 0
    /\ toBe = <<>>
    /\ trace = <<>>
    /\ toBeEvents = <<>>
    /\ asIsEvents = <<>>
    /\ returned = <<>>
    /\ MiningIdle
    /\ traces = NoResult
    /\ DeltaIdle
    /\ PlayIdle
    /\ UiIdle

\* rnd() on each closure
Rnd ==
    /\ pc = "rnd"
    /\ i < MaxDraws
    /\ rnd' = rndAdvance(rnd)
    /\ rndTwin' = rndAdvance(rndTwin)
    /\ word' = wordAfter(word, 1)
    /\ lastDraw' = returnedBy(rnd', rndTwin', word')
    /\ i' = i + 1
    /\ UNCHANGED <<pc, args, call, toBe, trace, toBeEvents, asIsEvents, returned, mineVars,
                   traces, deltaVars, playVars, uiVars>>

\* rnd() k times on each closure, the results but the last dropped
RndMany ==
    /\ pc = "rnd"
    /\ fitting(rnd) # {}
    /\ \E k \in {SetMax(fitting(rnd))} :
          /\ rnd' = rndAdvanceBy(rnd, k)
          /\ rndTwin' = rndAdvanceBy(rndTwin, k)
          /\ word' = wordAfter(word, k)
    /\ lastDraw' = returnedBy(rnd', rndTwin', word')
    /\ UNCHANGED <<pc, args, call, i, toBe, trace, toBeEvents, asIsEvents, returned, mineVars,
                   traces, deltaVars, playVars, uiVars>>

NextRng ==
    \/ Rnd
    \/ RndMany

SpecRng == InitRng /\ [][NextRng]_vars

(***************************************************************************)
(* Claims about mulberry32, checked under SpecRng.                         *)
(***************************************************************************)
\* a returned value u / 2^32 is at least 0 and below 1
inUnitInterval(u) == u[1] \in 0..65535 /\ u[2] \in 0..65535

\* C16, as stated: every value that mulberry32's closure returns is at least
\* 0 and below 1, is the value obtained from a 32-bit state advanced by
\* 0x6d2b79f5 modulo 2^32, and is the value that a second closure built from
\* the same seed returns.
C16_Mulberry32 ==
    lastDraw.computed =>
        /\ inUnitInterval(lastDraw.value)
        /\ lastDraw.value = lastDraw.reference
        /\ lastDraw.value = lastDraw.twin

\* what the code gives: the range and the agreement of the two closures
\* always, the sequence of the 32-bit state as long as t is below 2^53
C16_Observed ==
    lastDraw.computed =>
        /\ inUnitInterval(lastDraw.value)
        /\ lastDraw.value = lastDraw.twin
        /\ rnd.top < 2^21 => lastDraw.value = lastDraw.reference

\* C16's case happens: the closure of seed 0 was called 4917759 times, which
\* takes t to 9007199260973068 where the 32-bit state is 6232075, and the
\* call returned another value than the 32-bit state gives.
C16_Witness ==
    /\ args.seed = 0
    /\ lastDraw.computed
    /\ rnd = [top |-> 2^21, w |-> <<95, 6156>>]
    /\ word = <<95, 6155>>
    /\ lastDraw.value = lastDraw.twin
    /\ lastDraw.value # lastDraw.reference

(***************************************************************************)
(* Further claims about simulatePairedLog, checked under SpecSim.          *)
(***************************************************************************)
\* the events are those of the canonical sequence: the activities of
\* TO_BE.activities in that order, each with outcome OK and no issue family,
\* at strictly increasing instants
isCanonical(evs) ==
    /\ [k \in 1..Len(evs) |-> evs[k].activity] = TO_BE.activities
    /\ \A k \in 1..Len(evs) : evs[k].outcome = "OK" /\ evs[k].issue_family = undefined
    /\ \A k \in 1..(Len(evs) - 1) :
          /\ DateValue(evs[k].timestamp).finite
          /\ DateValue(evs[k + 1].timestamp).finite
          /\ DateValue(evs[k].timestamp).v < DateValue(evs[k + 1].timestamp).v

\* C17: for every case and every parameter set, the TO-BE events of the case
\* are the 14 activities of TO_BE.activities, each once and in that order, all
\* with outcome OK and no issue family, with strictly increasing timestamps.
C17_ToBeCanonical ==
    /\ Len(TO_BE.activities) = 14
    /\ Cardinality({TO_BE.activities[k] : k \in 1..14}) = 14
    /\ \A r \in 1..Len(returned) :
          /\ Cardinality(caseIdsOf(returned[r].toBeEvents)) = args.nCases
          /\ \A id \in caseIdsOf(returned[r].toBeEvents) :
                isCanonical(eventsOfCase(returned[r].toBeEvents, id))

\* C17 happens: the logs of MaxCases cases were returned with every kind of
\* noise applied to the AS-IS log, and the TO-BE log has 14 events a case.
C17_Witness ==
    /\ Len(returned) >= 1
    /\ args.nCases = MaxCases
    /\ args.pSkipGate = One
    /\ args.pManual = One
    /\ args.pUncontrolledLoop = One
    /\ Len(returned[1].toBeEvents) = 14 * MaxCases
    /\ returned[1].asIsEvents # returned[1].toBeEvents

(***************************************************************************)
(* The simulator and the mining engine side by side: the logs are those    *)
(* that simulatePairedLog returns and the hand-built ones.                 *)
(***************************************************************************)
InitOrder == InitSim \/ InitMine

NextOrder ==
    \/ NextSim
    \/ NextMine

SpecOrder == InitOrder /\ [][NextOrder]_vars

(***************************************************************************)
(* Claims about the chronological order, checked under SpecOrder.          *)
(***************************************************************************)
\* no event of evs stands before an earlier one, the events whose timestamp
\* does not parse set aside
chronological(evs) ==
    \A j, k \in 1..Len(evs) :
        (j < k /\ DateValue(evs[j].timestamp).finite /\ DateValue(evs[k].timestamp).finite)
            => DateValue(evs[j].timestamp).v <= DateValue(evs[k].timestamp).v

\* in both returned logs the events of each case are in chronological order
returnedInOrder ==
    \A r \in 1..Len(returned) :
        /\ \A id \in caseIdsOf(returned[r].toBeEvents) :
              chronological(eventsOfCase(returned[r].toBeEvents, id))
        /\ \A id \in caseIdsOf(returned[r].asIsEvents) :
              chronological(eventsOfCase(returned[r].asIsEvents, id))

\* every timestamp of the log parses
allParse(evs) == \A k \in 1..Len(evs) : DateValue(evs[k].timestamp).finite

\* C18, as stated: in both logs returned by simulatePairedLog the events of
\* each case are in non-decreasing timestamp order, and groupByCase returns
\* every case's events in non-decreasing timestamp order for any insertion
\* order of the input log.
C18_ChronologicalOrder ==
    /\ returnedInOrder
    /\ \A p \in 1..Len(groupByCase(events)) : chronological(groupByCase(events)[p].value)

\* what the code gives: the order in the returned logs, and in the traces of
\* groupByCase for a log whose timestamps all parse
C18_Observed ==
    /\ returnedInOrder
    /\ allParse(events) =>
          \A p \in 1..Len(groupByCase(events)) : chronological(groupByCase(events)[p].value)

\* C18's case happens: buildDFG has grouped a log of one case whose second
\* timestamp does not parse, in an engine whose sort leaves such an array as
\* it is, and the trace has the event of 08:01:18 before the one of 08:00:00.
C18_Witness ==
    /\ dfg.computed
    /\ Len(events) = 3
    /\ ~allParse(events)
    /\ sortImpl = <<Identity(3)>>
    /\ Len(groupByCase(events)) = 1
    /\ groupByCase(events)[1].value[1].timestamp = <<78>>
    /\ groupByCase(events)[1].value[3].timestamp = <<0>>

\* the first half of C18 happens too: logs with manual transfers and loops
\* were returned, and groupByCase has grouped the AS-IS log
C18_SimulatedWitness ==
    /\ conf.computed
    /\ args.pManual = One
    /\ args.pUncontrolledLoop = One
    /\ args.nCases = MaxCases
    /\ events = returned[Len(returned)].asIsEvents
    /\ Len(groupByCase(events)) = MaxCases

(***************************************************************************)
(* Claims about computeEdgeStats, checked under SpecMine.                  *)
(***************************************************************************)
\* the duration of the pair is finite and not negative: both timestamps parse
\* and the second is not the earlier one
validPair(pr) ==
    /\ DateValue(pr.a.timestamp).finite
    /\ DateValue(pr.b.timestamp).finite
    /\ DateValue(pr.a.timestamp).v <= DateValue(pr.b.timestamp).v

\* the positions of the pairs of a key whose duration is finite and >= 0
validPairsOf(pairs, key) ==
    {j \in 1..Len(pairs) : pairKey(pairs[j]) = key /\ validPair(pairs[j])}

\* the statistics of an edge are those of the single duration d
statsOfOne(st, d) ==
    st.totalMin = d /\ st.meanMin = d /\ st.medianMin = d /\ st.p95Min = d

\* the statistics of an edge whose pairs of finite duration >= 0 are at the
\* positions valid of pairs: their number, zeros for none, and the duration
\* of the pair for one
statsLeaveOut(st, pairs, valid) ==
    /\ st.count = Cardinality(valid)
    /\ Cardinality(valid) = 0 => statsOfOne(st, NumZero)
    /\ Cardinality(valid) = 1 =>
          \A j \in valid : statsOfOne(st, dtMin(pairs[j].a, pairs[j].b))

\* the counts of edgeStats for pairs, the within-case adjacent pairs of the
\* log, each case in the order that groupByCase leaves it in
countsValidPairs(pairs) ==
    \A p \in 1..Len(edgeStats.stats) :
        statsLeaveOut(edgeStats.stats[p].value, pairs,
                      validPairsOf(pairs, edgeStats.stats[p].key))

\* C19: for every edge key, count is the number of within-case adjacent pairs
\* of that key whose duration is finite and >= 0; a pair with a non-finite or
\* negative duration is left out of count, total, mean, median and p95 (an
\* edge with one pair left has the statistics of that pair alone, an edge with
\* none has zeros); for a log whose timestamps all parse, each edge's count is
\* the count of the same edge in buildDFG.
C19_EdgeStatsCount ==
    edgeStats.computed =>
        /\ countsValidPairs(adjacentPairs(groupByCase(events), 1))
        /\ allParse(events) =>
              /\ Len(edgeStats.stats) = Len(dfg.edges)
              /\ \A p \in 1..Len(dfg.edges) :
                    /\ edgeStats.stats[p].key = edgeKey(dfg.edges[p].source, dfg.edges[p].target)
                    /\ edgeStats.stats[p].value.count = dfg.edges[p].count

\* C19 happens: a case was left by the sort with its events of 08:00:00 and
\* 08:01:18 before the one whose timestamp does not parse; the edge A -> A has
\* two pairs in buildDFG and the statistics of the one pair of 1.3 minutes.
C19_Witness ==
    /\ edgeStats.computed
    /\ events \in UnparsableLogs
    /\ \A k \in 1..3 : events[k].activity = "A"
    /\ sortImpl = <<(<<3, 1, 2>>)>>
    /\ dfg.edges[1].count = 2
    /\ edgeStats.stats[1].key = "A -> A"
    /\ edgeStats.stats[1].value.count = 1
    /\ edgeStats.stats[1].value.meanMin = NumDivInt(NumFromInt(78), 60)

(***************************************************************************)
(* Claims about the skipped gates, checked under SpecSim.                  *)
(***************************************************************************)
Gates == <<Gate1, Gate2, Gate3>>

\* the activity occurs in the events
occursIn(evs, activity) == \E k \in 1..Len(evs) : evs[k].activity = activity

\* a case of an AS-IS log lacks no activity of the canonical sequence but
\* gates, all three gates are there with pSkipGate = 0 and none with
\* pSkipGate = 1
onlyGatesAbsent(evs) ==
    /\ \A k \in 1..Len(TO_BE.activities) :
          occursIn(evs, TO_BE.activities[k]) \/ TO_BE.activities[k] \in {Gate1, Gate2, Gate3}
    /\ args.pSkipGate = Zero => \A g \in 1..3 : occursIn(evs, Gates[g])
    /\ args.pSkipGate = One => \A g \in 1..3 : ~occursIn(evs, Gates[g])

\* the three calls of maybeRemove take a trace from which the g-th gate has
\* gone exactly when the g-th draw from here on is below pSkipGate
ownDrawDecides ==
    (pc = "skipGates" /\ pc' = "manualExport") =>
        \A g \in 1..3 :
            ~occursIn(trace', Gates[g])
                <=> LessThan(rndValue(rndAdvanceBy(rnd, g)), args.pSkipGate)

\* C20: the only activities of the canonical sequence that can be absent from
\* an AS-IS case are the three gates; each gate is removed exactly when its
\* own random draw is below pSkipGate, so with pSkipGate = 0 every AS-IS case
\* contains all three gates and with pSkipGate = 1 no AS-IS case contains any.
C20_SkipGate ==
    /\ [](\A r \in 1..Len(returned) :
             \A id \in caseIdsOf(returned[r].asIsEvents) :
                 onlyGatesAbsent(eventsOfCase(returned[r].asIsEvents, id)))
    /\ [][ownDrawDecides]_vars

\* C20 happens: with pSkipGate = 0.5 the three draws of a case took Gate 1 and
\* left Gate 2 in the trace.
C20_Witness ==
    /\ pc = "manualExport"
    /\ args.pSkipGate = [n |-> 5, d |-> 10]
    /\ ~occursIn(trace, Gate1)
    /\ occursIn(trace, Gate2)
    /\ Len(trace) \in {12, 13}

(***************************************************************************)
(* Claims about the manual transfers, checked under SpecSim.               *)
(***************************************************************************)
\* every event of the manual activity stands right before the first event of
\* its anchor and carries the issue family of the data continuity, and there
\* is at most one
manualBefore(evs, activity, anchor) ==
    /\ countActivity(evs, activity) <= 1
    /\ \A k \in 1..Len(evs) :
          evs[k].activity = activity =>
              /\ k = findIndex(evs, anchor)
              /\ evs[k].issue_family = "Données / continuité numérique"

\* C21: in every AS-IS case of the returned log each Manual - Export/Convert
\* event is immediately followed by SIMU - FLOW-3D (Verse 360) and each Manual
\* - Sync deformation event by the first SIMU - FLOW-3D (Remplissage zoom)
\* event; each manual event carries the issue family Données / continuité
\* numérique, and a case holds at most one of each manual activity.
C21_ManualOrdering ==
    \A r \in 1..Len(returned) :
        \A id \in caseIdsOf(returned[r].asIsEvents) :
            /\ manualBefore(eventsOfCase(returned[r].asIsEvents, id), ManualExport, Verse360)
            /\ manualBefore(eventsOfCase(returned[r].asIsEvents, id), ManualSync, Zoom)

\* C21 happens: a log was returned whose cases all hold both manual events,
\* and repetitions of the loop behind them.
C21_Witness ==
    /\ Len(returned) >= 1
    /\ args.nCases = MaxCases
    /\ args.pManual = One
    /\ args.pUncontrolledLoop = One
    /\ countActivity(returned[1].asIsEvents, ManualExport) = MaxCases
    /\ countActivity(returned[1].asIsEvents, ManualSync) = MaxCases
    /\ countActivity(returned[1].asIsEvents, Zoom) > MaxCases

(***************************************************************************)
(* Claims about the rework loop, checked under SpecSim.                    *)
(***************************************************************************)
\* the positions of the events of an activity, in the order of the events
positionsOf(evs, activity) ==
    SelectSeq([k \in 1..Len(evs) |-> k], LAMBDA k : evs[k].activity = activity)

\* the events of the loop: those of the upstream and of the trigger activity
\* behind the first trigger event
loopEvents(evs) ==
    SelectSeq(SubSeq(evs, findIndex(evs, Zoom) + 2, Len(evs)),
              LAMBDA e : e.activity \in {Transfer, Zoom})

\* the instant of an event, in seconds
instant(e) == DateValue(e.timestamp).v

\* the trigger events at the positions zs, in chronological order: the last
\* one OK, the earlier ones ISSUE with one issue family
resolvedAtLast(evs, zs) ==
    /\ evs[zs[Len(zs)]].outcome = "OK"
    /\ evs[zs[Len(zs)]].issue_family = undefined
    /\ \A j \in 1..(Len(zs) - 1) :
          /\ evs[zs[j]].outcome = "ISSUE"
          /\ evs[zs[j]].issue_family = evs[zs[1]].issue_family
          /\ \E f \in 1..Len(ISSUE_FAMILIES) : evs[zs[j]].issue_family = ISSUE_FAMILIES[f]

\* the loop's events of a case: upstream, trigger, upstream, trigger, ... at
\* strictly increasing instants behind the first trigger event
loopShape(evs, inserted) ==
    /\ Len(inserted) = 2 * (countActivity(evs, Zoom) - 1)
    /\ \A j \in 1..Len(inserted) :
          /\ inserted[j].activity = (IF j % 2 = 1 THEN Transfer ELSE Zoom)
          /\ instant(inserted[j]) > instant(evs[findIndex(evs, Zoom) + 1])
          /\ j > 1 => instant(inserted[j]) > instant(inserted[j - 1])

loopOfCase(evs) ==
    /\ countActivity(evs, Zoom) = countActivity(evs, Transfer)
    /\ countActivity(evs, Zoom) \in 1..4
    /\ args.pUncontrolledLoop = Zero => countActivity(evs, Zoom) = 1
    /\ args.pUncontrolledLoop = One => countActivity(evs, Zoom) >= 2
    /\ loopShape(evs, loopEvents(evs))
    /\ resolvedAtLast(evs, positionsOf(evs, Zoom))

\* C22: in every AS-IS case the number of trigger events (Remplissage zoom)
\* equals the number of upstream events (Transfert déformé) and is 1 when the
\* loop did not fire and 2, 3 or 4 when it did; the inserted events have
\* strictly increasing timestamps, all later than the original trigger event;
\* the chronologically last trigger event has outcome OK and every earlier
\* one has outcome ISSUE with one common issue family.
C22_LoopSize ==
    \A r \in 1..Len(returned) :
        \A id \in caseIdsOf(returned[r].asIsEvents) :
            loopOfCase(eventsOfCase(returned[r].asIsEvents, id))

\* C22 happens: a case was returned with more than one repetition of the
\* loop.
C22_Witness ==
    /\ Len(returned) >= 1
    /\ args.nCases >= 1
    /\ args.pUncontrolledLoop = One
    /\ \E id \in caseIdsOf(returned[1].asIsEvents) :
          countActivity(eventsOfCase(returned[1].asIsEvents, id), Zoom) >= 3

(***************************************************************************)
(* injectAsIsNoise on hand-built base traces: the start activity and the   *)
(* three anchors of the perturbations, any of them left out, in any order, *)
(* an hour apart.  The run goes on as simulatePairedLog does after the     *)
(* first case.                                                             *)
(***************************************************************************)
AnchorActivities == {TO_BE.start, Verse360, Transfer, Zoom}

\* the sequences of distinct elements of S
RECURSIVE Arrangements(_)
Arrangements(S) ==
    {<<>>} \cup UNION {{<<x>> \o rest : rest \in Arrangements(S \ {x})} : x \in S}

baseOf(acts) ==
    [k \in 1..Len(acts) |->
        [case_id |-> caseIdOf(1), activity |-> acts[k],
         timestamp |-> addMinutes(baseStart, 60 * k),
         actor |-> actorFromActivity(acts[k]), tool |-> toolFromActivity(acts[k]),
         resource |-> undefined, outcome |-> "OK", issue_family |-> undefined]]

BaseTraces == {baseOf(acts) : acts \in Arrangements(AnchorActivities)}

\* injectAsIsNoise({ base, rnd: mulberry32(seed), pSkipGate: 0, pManual: 1,
\* pUncontrolledLoop: 1, maxLoops: 3 }): let trace = [...base]
InitNoise ==
    /\ pc = "skipGates"
    /\ args \in {[nCases |-> 1, seed |-> s, pSkipGate |-> Zero, pManual |-> One,
                  pUncontrolledLoop |-> One] : s \in Seeds}
    /\ call = 1
    /\ rnd = mulberry32(args.seed)
    /\ i = 1
    /\ toBe \in BaseTraces
    /\ trace = toBe
    /\ toBeEvents = <<>>
    /\ asIsEvents = <<>>
    /\ returned = <<>>
    /\ MiningIdle
    /\ traces = NoResult
    /\ DeltaIdle
    /\ PlayIdle
    /\ RngIdle
    /\ UiIdle

SpecNoise == InitNoise /\ [][NextSim]_vars

(***************************************************************************)
(* Claims about a missing anchor, checked under SpecNoise.                 *)
(***************************************************************************)
\* the draw that a step of injectAsIsNoise starts with is below p
firstDrawBelow(p) == LessThan(rndValue(rndAdvance(rnd)), p)

\* the step of a manual transfer: nothing changes when the anchor is absent
\* or the first event; otherwise, with the draw below p, the manual event is
\* put in the anchor's place
manualStepOn(anchor, activity, p) ==
    IF findIndex(trace, anchor) <= 0 THEN trace' = trace
    ELSE firstDrawBelow(p) =>
            /\ Len(trace') = Len(trace) + 1
            /\ trace'[findIndex(trace, anchor) + 1].activity = activity

\* the step of the loop: nothing changes unless the trigger is there and the
\* upstream activity is there before it; otherwise, with the draw below p,
\* one to three pairs of events are inserted
loopStepOn(p) ==
    IF /\ findIndex(trace, Zoom) >= 0
       /\ findIndex(trace, Transfer) >= 0
       /\ findIndex(trace, Transfer) < findIndex(trace, Zoom)
    THEN firstDrawBelow(p) => Len(trace') - Len(trace) \in {2, 4, 6}
    ELSE trace' = trace

noOpSteps ==
    /\ (pc = "manualExport" /\ pc' = "manualSync") =>
          manualStepOn(Verse360, ManualExport, args.pManual)
    /\ (pc = "manualSync" /\ pc' = "uncontrolledLoop") =>
          manualStepOn(Zoom, ManualSync, TimesEightTenths(args.pManual))
    /\ (pc = "uncontrolledLoop" /\ pc' = "sort") =>
          loopStepOn(args.pUncontrolledLoop)

\* C23: when the base trace does not hold a perturbation's anchor (or holds
\* it as the very first event, for a manual transfer), that perturbation
\* inserts no event and raises no error even with probability 1, and the
\* other perturbations are still applied; the loop is also skipped when the
\* upstream activity is absent or does not precede the trigger.
C23_MissingAnchor == [][noOpSteps]_vars

\* C23 happens: on the base trace start, upstream, trigger, without the first
\* anchor, no export event was inserted and the loop was.
C23_Witness ==
    /\ pc = "sort"
    /\ [k \in 1..Len(toBe) |-> toBe[k].activity] = <<TO_BE.start, Transfer, Zoom>>
    /\ args.pManual = One
    /\ countActivity(trace, ManualExport) = 0
    /\ countActivity(trace, Zoom) >= 2

(***************************************************************************)
(* lib/layout.ts: the positions of the nodes of the process graph.         *)
(* A coordinate is <<v>> for the number v and <<>> for undefined; the      *)
(* coordinates of the model are integers.                                  *)
(***************************************************************************)
originX == 180
stepX == 280
minGapDefault == 120

\* buildStageColumns(model, originX, stepX): one column per activity and the
\* fallback column; 4.5 * stepX is (9 * stepX) / 2, an integer for an even stepX
buildStageColumns(model, x0, step) ==
    [k \in 1..Len(model.activities) |-> x0 + (k - 1) * step]
        \o <<x0 + (9 * step) \div 2>>

abs(n) == IF n < 0 THEN 0 - n ELSE n

\* nearestStageX(stageCols, x): the first of the columns at the least distance;
\* for an undefined x every distance is NaN, no d < bestD holds, and the
\* result is stageCols[0]
nearestStageX(stageCols, x) ==
    IF x = <<>> THEN stageCols[1]
    ELSE stageCols[CHOOSE k \in 1..Len(stageCols) :
            /\ \A j \in 1..Len(stageCols) : abs(x[1] - stageCols[k]) <= abs(x[1] - stageCols[j])
            /\ \A j \in 1..(k - 1) : abs(x[1] - stageCols[j]) > abs(x[1] - stageCols[k])]

\* stageIndex(model, activity): model.activities.indexOf(activity), 0-based or -1
stageIndex(model, activity) ==
    IF \E k \in 1..Len(model.activities) : model.activities[k] = activity
    THEN (CHOOSE k \in 1..Len(model.activities) : model.activities[k] = activity) - 1
    ELSE -1

actorLaneBase(actor) ==
    CASE actor = "BE" -> 90
      [] actor = "GATE" -> 260
      [] actor = "BM" -> 430
      [] actor = "MANUAL" -> 520
      [] actor = "SIMU" -> 650
      [] actor = "IPT" -> 900
      [] OTHER -> 520

\* the activity names of the graphs of the model that are not in the process
\* model, in the order of a.localeCompare(b)
Collation == <<"constructor", ManualExport, ManualSync, "Review">>

localeCompare(a, b) ==
    LET at(x) == CHOOSE k \in 1..Len(Collation) : Collation[k] = x
    IN  IF a = b THEN 0 ELSE IF at(a) < at(b) THEN -1 ELSE 1

\* the comparator of arr.sort in buildFullProcessGraph
laneCompare(model, a, b) ==
    LET ia == stageIndex(model, a)
        ib == stageIndex(model, b)
    IN  IF ia # ib THEN (IF ia = -1 THEN 999 ELSE ia) - (IF ib = -1 THEN 999 ELSE ib)
        ELSE localeCompare(a, b)

\* actorFromActivity(n.id) ?? "UNKNOWN"
laneKey(id) == IF actorFromActivity(id) = undefined THEN "UNKNOWN" ELSE actorFromActivity(id)

\* Math.max(0, laneArr.indexOf(n.id)) for the sorted lane of the node's actor:
\* the ids of a graph are distinct and the comparator orders them, so the
\* index is the number of ids of the lane that sort before this one
lanePos(model, dfgNodes, id) ==
    Cardinality({k \in 1..Len(dfgNodes) :
        /\ laneKey(dfgNodes[k]) = laneKey(id)
        /\ laneCompare(model, dfgNodes[k], id) < 0})

\* stageCols[Math.max(0, sIdx)] ?? stageCols[stageCols.length - 1]
baseX(stageCols, sIdx) ==
    IF (IF sIdx < 0 THEN 0 ELSE sIdx) + 1 <= Len(stageCols)
    THEN stageCols[(IF sIdx < 0 THEN 0 ELSE sIdx) + 1]
    ELSE stageCols[Len(stageCols)]

\* actorLaneBase(actor) + lanePos * 120
baseY(model, dfgNodes, id) ==
    actorLaneBase(actorFromActivity(id)) + lanePos(model, dfgNodes, id) * 120

\* the names that every object inherits from Object.prototype, among the
\* activity names of the model: manualPos[name] is then an object (the
\* function Object) that has no x and no y
Inherited == {"constructor"}

\* const mp = manualPos[n.id]; mp ? { x: mp.x, y: mp.y } : { x: baseX, y: baseY }
posOf(a, id) ==
    IF id \in DOMAIN a.manualPos
    THEN [x |-> <<a.manualPos[id].x>>, y |-> <<a.manualPos[id].y>>]
    ELSE IF id \in Inherited THEN [x |-> <<>>, y |-> <<>>]
    ELSE [x |-> <<baseX(a.stageCols, stageIndex(a.model, id))>>,
          y |-> <<baseY(a.model, a.dfgNodes, id)>>]

\* lockColumns ? { x: nearestStageX(stageCols, pos.x), y: pos.y } : pos
snappedPos(a, p) ==
    IF a.lockColumns THEN [x |-> <<nearestStageX(a.stageCols, p.x)>>, y |-> p.y] ELSE p

\* the stable arr.sort((a, b) => a.position.y - b.position.y)
sortByY(arr) ==
    LET rank(k) == Cardinality({j \in 1..Len(arr) :
                        \/ arr[j].position.y[1] < arr[k].position.y[1]
                        \/ arr[j].position.y[1] = arr[k].position.y[1] /\ j < k})
    IN  [r \in 1..Len(arr) |-> arr[CHOOSE k \in 1..Len(arr) : rank(k) = r - 1]]

\* a forward pass that measures the gap from where the previous node was
RECURSIVE pushDownFromGiven(_, _, _)
pushDownFromGiven(arr, n, minGap) ==
    IF n = 0 THEN <<>>
    ELSE Append(pushDownFromGiven(arr, n - 1, minGap),
                IF n > 1 /\ arr[n].position.y[1] < arr[n - 1].position.y[1] + minGap
                THEN [arr[n] EXCEPT !.position.y = <<arr[n - 1].position.y[1] + minGap>>]
                ELSE arr[n])

\* if (cur.position.y < prev.position.y + minGap) cur.position.y = ..., after
\* the nodes before cur were passed
pushedAfter(before, cur, minGap) ==
    Append(before,
           IF cur.position.y[1] < before[Len(before)].position.y[1] + minGap
           THEN [cur EXCEPT !.position.y = <<before[Len(before)].position.y[1] + minGap>>]
           ELSE cur)

\* for (let i = 1; i < arr.length; i++): the first n nodes of arr after the pass
RECURSIVE pushDown(_, _, _)
pushDown(arr, n, minGap) ==
    IF n = 0 THEN <<>>
    ELSE IF n = 1 THEN <<arr[1]>>
    ELSE pushedAfter(pushDown(arr, n - 1, minGap), arr[n], minGap)

\* the columns of the Map byCol, in the order of their first node
columnsOf(nodeList, stageCols) ==
    LET cx(k) == nearestStageX(stageCols, nodeList[k].position.x)
        firsts == SelectSeq([k \in 1..Len(nodeList) |-> k],
                            LAMBDA k : \A j \in 1..(k - 1) : cx(j) # cx(k))
    IN  [c \in 1..Len(firsts) |-> cx(firsts[c])]

RECURSIVE concat(_, _)
concat(seqs, n) == IF n = 0 THEN <<>> ELSE concat(seqs, n - 1) \o seqs[n]

\* resolveOverlaps(nodes, stageCols, minGap): out, and the array nodes as the
\* call leaves it (the pass writes into the copies made at line 55)
resolveOverlaps(nodeList, stageCols, minGap) ==
    LET cols == columnsOf(nodeList, stageCols)
        group(c) == SelectSeq(nodeList,
                        LAMBDA n : nearestStageX(stageCols, n.position.x) = cols[c])
        passed(arr) == pushDown(arr, Len(arr), minGap)
    IN  [out |-> concat([c \in 1..Len(cols) |-> passed(sortByY(group(c)))], Len(cols)),
         nodes |-> nodeList]

\* buildFullProcessGraph(args).nodes, each with its id and its position
buildFullProcessGraph(a) ==
    LET built == [k \in 1..Len(a.dfgNodes) |->
                    [id |-> a.dfgNodes[k], position |-> snappedPos(a, posOf(a, a.dfgNodes[k]))]]
    IN  IF a.autoSeparate /\ DOMAIN a.manualPos = {}
        THEN resolveOverlaps(built, a.stageCols, minGapDefault).out
        ELSE built

(***************************************************************************)
(* The layout of small graphs: buildFullProcessGraph, then resolveOverlaps *)
(* on the nodes it returned and once more on the result.                   *)
(***************************************************************************)
NodeLists ==
    { <<>>,
      <<TO_BE.start>>,
      <<TO_BE.start, "BE - Secteur (CATPart)">>,
      <<ManualSync, ManualExport>>,
      <<TO_BE.start, "constructor">>,
      <<"Review", ManualExport, TO_BE.start>>,
      <<Verse360, ManualSync, "Review">> }

PosChoices ==
    { [x |-> 0, y |-> 0], [x |-> 320, y |-> 100], [x |-> 200, y |-> 150],
      [x |-> 1450, y |-> 90] }

MinGaps == {minGapDefault, 50}

idsOf(nodeList) == {nodeList[k] : k \in 1..Len(nodeList)}

\* the overrides of some of the graph's nodes and, or, of an activity that the
\* graph does not show
ManualPositions(dfgNodes) ==
    UNION {[keys -> PosChoices] : keys \in SUBSET (idsOf(dfgNodes) \cup {Zoom})}

LayoutArgs ==
    UNION {[model : {TO_BE},
            stageCols : {buildStageColumns(TO_BE, originX, stepX)},
            dfgNodes : {ids},
            lockColumns : BOOLEAN,
            autoSeparate : BOOLEAN,
            manualPos : ManualPositions(ids)] : ids \in NodeLists}

defined(nodeList) ==
    \A k \in 1..Len(nodeList) :
        nodeList[k].position.x # <<>> /\ nodeList[k].position.y # <<>>

InitLayout ==
    /\ pc = "layout"
    /\ layoutArgs \in LayoutArgs
    /\ (layoutArgs.autoSeparate /\ DOMAIN layoutArgs.manualPos = {})
          => idsOf(layoutArgs.dfgNodes) \cap Inherited = {}
    /\ rfNodes = <<>>
    /\ separated = <<>>
    /\ SimIdle
    /\ MiningIdle
    /\ traces = NoResult
    /\ DeltaIdle
    /\ PlayIdle
    /\ RngIdle
    /\ TickIdle

BuildFullProcessGraph ==
    /\ pc = "layout"
    /\ rfNodes' = buildFullProcessGraph(layoutArgs)
    /\ pc' = "built"
    /\ UNCHANGED <<simVars, mineVars, traces, deltaVars, playVars, rngVars, tickVars,
                   layoutArgs, separated>>

\* resolveOverlaps(given, stageCols, minGap) on the nodes that
\* buildFullProcessGraph returned, then on what that call returned
separatedAfter(given, called, before) ==
    Append(before, [minGap |-> called.minGap, given |-> given,
                    nodes |-> called.result.nodes, out |-> called.result.out])

ResolveOverlaps ==
    /\ pc = "built"
    /\ Len(separated) < 2
    /\ defined(rfNodes)
    /\ \E g \in (IF separated = <<>> THEN MinGaps ELSE {separated[1].minGap}) :
          separated' =
              IF separated = <<>>
              THEN separatedAfter(rfNodes,
                       [minGap |-> g, result |-> resolveOverlaps(rfNodes, layoutArgs.stageCols, g)],
                       separated)
              ELSE separatedAfter(separated[1].out,
                       [minGap |-> g,
                        result |-> resolveOverlaps(separated[1].out, layoutArgs.stageCols, g)],
                       separated)
    /\ UNCHANGED <<pc, simVars, mineVars, traces, deltaVars, playVars, rngVars, tickVars,
                   layoutArgs, rfNodes>>

NextLayout == BuildFullProcessGraph \/ ResolveOverlaps

SpecLayout == InitLayout /\ [][NextLayout]_vars

(***************************************************************************)
(* Claims about the layout, checked under SpecLayout.                      *)
(***************************************************************************)
\* c is an entry of stageCols and none is nearer to x
nearestColumn(stageCols, c, x) ==
    /\ \E k \in 1..Len(stageCols) : stageCols[k] = c
    /\ \A k \in 1..Len(stageCols) : abs(c - x) <= abs(stageCols[k] - x)

\* the node is at its manual position, its x on a nearest column when the
\* columns are locked
atManual(a, n) ==
    /\ n.position.y = <<a.manualPos[n.id].y>>
    /\ IF a.lockColumns
       THEN \E c \in {a.stageCols[k] : k \in 1..Len(a.stageCols)} :
                n.position.x = <<c>> /\ nearestColumn(a.stageCols, c, a.manualPos[n.id].x)
       ELSE n.position.x = <<a.manualPos[n.id].x>>

atBase(a, n) ==
    n.position = [x |-> <<baseX(a.stageCols, stageIndex(a.model, n.id))>>,
                  y |-> <<baseY(a.model, a.dfgNodes, n.id)>>]

onColumn(a, n) ==
    \E k \in 1..Len(a.stageCols) : n.position.x = <<a.stageCols[k]>>

sameIds(nodeList, ids) ==
    /\ Len(nodeList) = Len(ids)
    /\ \A k \in 1..Len(ids) : nodeList[k].id = ids[k]

overridesKept(a, nodeList, unlessInherited) ==
    /\ sameIds(nodeList, a.dfgNodes)
    /\ \A k \in 1..Len(nodeList) :
          /\ IF nodeList[k].id \in DOMAIN a.manualPos THEN atManual(a, nodeList[k])
             ELSE IF unlessInherited /\ nodeList[k].id \in Inherited
                  THEN /\ nodeList[k].position.y = <<>>
                       /\ nodeList[k].position.x =
                              IF a.lockColumns THEN <<a.stageCols[1]>> ELSE <<>>
                  ELSE atBase(a, nodeList[k])
          /\ a.lockColumns => onColumn(a, nodeList[k])

\* C24: when manualPos has at least one entry, buildFullProcessGraph applies no
\* push-down even with autoSeparate on: every node with an override is at its
\* manual y and at its manual x (on a nearest entry of stageCols when
\* lockColumns is on), every node without an override is at its computed base
\* position, and with lockColumns on every node's x is an entry of stageCols.
C24_ManualOverrides ==
    (pc = "built" /\ DOMAIN layoutArgs.manualPos # {})
        => overridesKept(layoutArgs, rfNodes, FALSE)

\* what the program does: the same, but a node without an override whose id
\* is a name that every object inherits has an undefined position
C24_Observed ==
    (pc = "built" /\ DOMAIN layoutArgs.manualPos # {})
        => overridesKept(layoutArgs, rfNodes, TRUE)

\* the graph of the nodes 'BE - CATPart (pièce)' and 'constructor' with an
\* override of the first only: the second has no position
C24_Witness ==
    /\ pc = "built"
    /\ layoutArgs.dfgNodes = <<TO_BE.start, "constructor">>
    /\ DOMAIN layoutArgs.manualPos = {TO_BE.start}
    /\ ~layoutArgs.lockColumns
    /\ rfNodes[1].position = [x |-> <<layoutArgs.manualPos[TO_BE.start].x>>,
                              y |-> <<layoutArgs.manualPos[TO_BE.start].y>>]
    /\ rfNodes[2].position = [x |-> <<>>, y |-> <<>>]

\* the nodes of out in the order of the array: those of a column are together
sameColumn(done, a, b) ==
    nearestStageX(layoutArgs.stageCols, done.out[a].position.x)
        = nearestStageX(layoutArgs.stageCols, done.out[b].position.x)

\* b is the node that follows a in y among those of the column of a
consecutive(done, a, b) ==
    /\ a # b
    /\ sameColumn(done, a, b)
    /\ done.out[a].position.y[1] <= done.out[b].position.y[1]
    /\ ~\E c \in 1..Len(done.out) :
          /\ c # a /\ c # b /\ sameColumn(done, a, c)
          /\ done.out[a].position.y[1] < done.out[c].position.y[1]
          /\ done.out[c].position.y[1] < done.out[b].position.y[1]

givenOf(done, n) == CHOOSE g \in 1..Len(done.given) : done.given[g].id = n.id

resolved(done) ==
    /\ \A a, b \in 1..Len(done.out) :
          consecutive(done, a, b)
              => done.out[b].position.y[1] >= done.out[a].position.y[1] + done.minGap
    /\ Len(done.out) = Len(done.given)
    /\ {done.out[k].id : k \in 1..Len(done.out)} = {done.given[k].id : k \in 1..Len(done.given)}
    /\ \A k \in 1..Len(done.out) :
          /\ done.out[k].position.x = done.given[givenOf(done, done.out[k])].position.x
          /\ done.out[k].position.y[1] >= done.given[givenOf(done, done.out[k])].position.y[1]
    /\ done.nodes = done.given

\* C25: in the result of resolveOverlaps two nodes of the same column that
\* follow each other in y are at least minGap apart; the result has the ids of
\* the input, no x has changed, no y has decreased, the input's positions are
\* as they were, and resolveOverlaps of the result changes no position.
C25_ResolveOverlaps ==
    /\ \A c \in 1..Len(separated) : resolved(separated[c])
    /\ Len(separated) = 2 => separated[2].out = separated[2].given

\* three nodes of one column at y 0, 100 and 150 were put at 0, 120 and 240,
\* and the second call has left them there
C25_Witness ==
    /\ Len(separated) = 2
    /\ separated[1].minGap = minGapDefault
    /\ Len(rfNodes) = 3
    /\ {rfNodes[k].position.y : k \in 1..3} = {<<0>>, <<100>>, <<150>>}
    /\ {separated[1].out[k].position.y : k \in 1..3} = {<<0>>, <<120>>, <<240>>}
    /\ separated[2].out = separated[1].out

fallbackColumn(stageCols) == stageCols[Len(stageCols)]

unknownAt(a, nodeList, x) ==
    \A k \in 1..Len(nodeList) :
        (/\ stageIndex(a.model, nodeList[k].id) = -1
         /\ nodeList[k].id \notin DOMAIN a.manualPos
         /\ nodeList[k].id \notin Inherited)
            => nodeList[k].position.x = <<x>>

\* C26: a node whose activity is not in model.activities and that has no
\* manual override has the fallback column as its base x, the last entry of
\* the list of buildStageColumns (originX + 4.5 * stepX), not the column of a
\* canonical activity; the layout does not throw for an unknown activity.
C26_FallbackColumn ==
    pc = "built" =>
        /\ fallbackColumn(layoutArgs.stageCols) = originX + (9 * stepX) \div 2
        /\ unknownAt(layoutArgs, rfNodes, fallbackColumn(layoutArgs.stageCols))

\* what the program does: the node is on the column of the first activity
C26_Observed ==
    pc = "built" =>
        /\ idsOf(layoutArgs.dfgNodes) = {rfNodes[k].id : k \in 1..Len(rfNodes)}
        /\ unknownAt(layoutArgs, rfNodes, layoutArgs.stageCols[1])

\* 'Manual - Export/Convert (format)' without an override is on the column of
\* 'BE - CATPart (pièce)'
C26_Witness ==
    /\ pc = "built"
    /\ layoutArgs.manualPos = <<>>
    /\ \E k \in 1..Len(rfNodes) :
          /\ rfNodes[k].id = ManualExport
          /\ stageIndex(layoutArgs.model, ManualExport) = -1
          /\ rfNodes[k].position.x = <<originX>>
          /\ baseX(layoutArgs.stageCols, stageIndex(layoutArgs.model, TO_BE.start)) = originX

(***************************************************************************)
(* components/ProcessExplorer.tsx: the token animation.  While playing,    *)
(* every animation frame runs step, which asks for the next frame; replay  *)
(* may be called between two frames.                                       *)
(***************************************************************************)
\* clamp(v, a, b): Math.max(a, Math.min(b, v)), on indexes
clampIndex(v, a, b) == IF (IF v < b THEN v ELSE b) > a THEN (IF v < b THEN v ELSE b) ELSE a

\* const pxPerFrame = 6 * speed; const dt = pxPerFrame / seg.len
dtOf(sgs, sp, st) ==
    NumDiv(NumMul(NumFromInt(6), sp), sgs[clampIndex(st.segIdx, 0, Len(sgs) - 1) + 1].len)

\* while (t >= 1 && i < segs.length - 1) { t = t - 1; i += 1 }
RECURSIVE advanced(_, _, _)
advanced(t, k, n) ==
    IF NumGeq(t, NumFromInt(1)) /\ k < n - 1
    THEN advanced(NumSub(t, NumFromInt(1)), k + 1, n)
    ELSE [segIdx |-> k, segT |-> t]

\* a step that goes on after the last segment without looping
keptAtEnd(st, n) == st

\* if (i === segs.length - 1 && t >= 1) { i = 0; t = 0 }
loopedAtEnd(st, n) ==
    IF st.segIdx = n - 1 /\ NumGeq(st.segT, NumFromInt(1))
    THEN [segIdx |-> 0, segT |-> NumZero]
    ELSE st

\* step: the value stored in progRef.current
step(sgs, sp, st) ==
    loopedAtEnd(advanced(NumAdd(st.segT, dtOf(sgs, sp, st)), st.segIdx, Len(sgs)), Len(sgs))

lenOf(n) == [len |-> NumFromInt(n)]

\* segment lists with the lengths of a layout, among them lengths that one
\* frame passes (len <= 6 * speed)
SegLists ==
    { <<lenOf(280)>>,
      <<lenOf(1), lenOf(120)>>,
      <<lenOf(100), lenOf(100)>>,
      <<lenOf(7), lenOf(1), [len |-> NumDivInt(NumFromInt(5), 2)], lenOf(40)>>,
      <<lenOf(33), [len |-> NumSqrt(NumFromInt(280 * 280 + 120 * 120))], lenOf(2)>> }

\* the ends and the middle of the range input, 0.25..3
Speeds == {NumDivInt(NumFromInt(1), 4), NumFromInt(1), NumFromInt(3)}

InitTick ==
    /\ pc = "playing"
    /\ tickSegs \in SegLists
    /\ tickSpeed \in Speeds
    /\ progRef = [segIdx |-> 0, segT |-> NumZero]
    /\ SimIdle
    /\ MiningIdle
    /\ traces = NoResult
    /\ DeltaIdle
    /\ PlayIdle
    /\ RngIdle
    /\ LayIdle

Step ==
    /\ pc = "playing"
    /\ progRef' = step(tickSegs, tickSpeed, progRef)
    /\ UNCHANGED <<pc, simVars, mineVars, traces, deltaVars, playVars, rngVars, layVars,
                   tickSegs, tickSpeed>>

\* replay: progRef.current = { segIdx: 0, segT: 0 }
Replay ==
    /\ pc = "playing"
    /\ progRef' = [segIdx |-> 0, segT |-> NumZero]
    /\ UNCHANGED <<pc, simVars, mineVars, traces, deltaVars, playVars, rngVars, layVars,
                   tickSegs, tickSpeed>>

NextTick == Step \/ Replay

\* requestAnimationFrame(step) at the end of every step: while playing, a
\* frame always comes.  Step is enabled in every state, so its fairness is
\* that frames keep coming.
SpecTick == InitTick /\ [][NextTick]_vars /\ []<><<Step>>_vars

(***************************************************************************)
(* Claims about the animation, checked under SpecTick.                     *)
(***************************************************************************)
atStart == progRef = [segIdx |-> 0, segT |-> NumZero]

inRange ==
    pc = "playing" =>
        /\ progRef.segIdx \in 0..(Len(tickSegs) - 1)
        /\ ~progRef.segT.nan
        /\ ~NumLess(progRef.segT, NumZero)
        /\ NumLess(progRef.segT, NumFromInt(1))

\* the index does not go back, except to the start
inOrder == progRef'.segIdx >= progRef.segIdx \/ atStart'

\* a frame that passes the end of the last segment
passesTheEnd ==
    /\ progRef.segIdx = Len(tickSegs) - 1
    /\ NumGeq(NumAdd(progRef.segT, dtOf(tickSegs, tickSpeed, progRef)), NumFromInt(1))

\* C27: for a fixed non-empty segment list and a positive speed, from index 0
\* and progress 0, after every animation step the stored index is within
\* 0..segs.length-1 and the stored progress in [0, 1); the segments are visited
\* in increasing index order; once the progress passes the end of the last
\* segment, index and progress are reset to 0; and while playing the start of
\* the first segment is reached again and again.
C27_TickLoop ==
    /\ []inRange
    /\ [][inOrder /\ (passesTheEnd => atStart')]_vars
    /\ []<>(pc = "playing" => atStart)

\* the animation is in the last of three segments, one frame before its end
C27_Witness ==
    /\ pc = "playing"
    /\ Len(tickSegs) = 3
    /\ progRef.segIdx = 2
    /\ NumLess(NumZero, progRef.segT)
    /\ passesTheEnd

(***************************************************************************)
(* Two calls of simulatePairedLog with the same seed and nCases: the       *)
(* second one is made with the same probabilities, with no noise or with   *)
(* every probability at 1.                                                 *)
(***************************************************************************)
withProbability(a, p) ==
    [a EXCEPT !.pSkipGate = p, !.pManual = p, !.pUncontrolledLoop = p]

OtherProbabilities ==
    /\ pc = "idle"
    /\ call = 1
    /\ Len(returned) = 1
    /\ args' \in {withProbability(args, Zero), withProbability(args, One)} \ {args}
    /\ UNCHANGED <<pc, call, rnd, i, toBe, trace, toBeEvents, asIsEvents, returned,
                   mineVars, extVars>>

NextPair == NextSim \/ OtherProbabilities

SpecPair == InitSim /\ [][NextPair]_vars

(***************************************************************************)
(* Claims about the two calls, checked under SpecPair.                     *)
(***************************************************************************)
\* C28: two calls of simulatePairedLog with the same seed and nCases but
\* different pSkipGate, pManual or pUncontrolledLoop return identical
\* toBeEvents (activities, timestamps and resources of every case): the
\* probabilities influence asIsEvents only.
C28_NoiseStaysInAsIs ==
    Len(returned) = 2 => returned[1].toBeEvents = returned[2].toBeEvents

sameShape(evs1, evs2) ==
    /\ Len(evs1) = Len(evs2)
    /\ \A k \in 1..Len(evs1) :
          /\ evs1[k].case_id = evs2[k].case_id
          /\ evs1[k].activity = evs2[k].activity
          /\ evs1[k].outcome = evs2[k].outcome

\* what the program does: the TO-BE logs have the same cases and activities,
\* and the same events for the first case
C28_Observed ==
    Len(returned) = 2 =>
        /\ sameShape(returned[1].toBeEvents, returned[2].toBeEvents)
        /\ eventsOfCase(returned[1].toBeEvents, caseIdOf(1))
              = eventsOfCase(returned[2].toBeEvents, caseIdOf(1))

\* two calls for two cases have returned TO-BE logs whose second cases differ
C28_Witness ==
    /\ Len(returned) = 2
    /\ args.nCases = 2
    /\ eventsOfCase(returned[1].toBeEvents, caseIdOf(1))
          = eventsOfCase(returned[2].toBeEvents, caseIdOf(1))
    /\ eventsOfCase(returned[1].toBeEvents, caseIdOf(2))
          # eventsOfCase(returned[2].toBeEvents, caseIdOf(2))
    /\ eventsOfCase(returned[1].toBeEvents, caseIdOf(2))[1].timestamp
          # eventsOfCase(returned[2].toBeEvents, caseIdOf(2))[1].timestamp

(***************************************************************************)
(* Claims about the ends of the simulated cases, checked under SpecSim.    *)
(***************************************************************************)
instantsOf(evs) == {instant(evs[k]) : k \in 1..Len(evs)}

\* last minus first timestamp of a case, in seconds
spanOf(evs) ==
    SetMax(instantsOf(evs)) - (CHOOSE v \in instantsOf(evs) : \A w \in instantsOf(evs) : v <= w)

\* the start event and the release event of the TO-BE case are in the AS-IS
\* case as they are, and no AS-IS event is earlier than the start event
endsKept(toBeCase, asIsCase) ==
    /\ \E k \in 1..Len(asIsCase) : asIsCase[k] = toBeCase[1]
    /\ \E k \in 1..Len(asIsCase) : asIsCase[k] = toBeCase[Len(toBeCase)]
    /\ \A k \in 1..Len(asIsCase) : instant(asIsCase[k]) >= instant(toBeCase[1])

\* C29: for every case that simulatePairedLog produces the AS-IS lead time
\* (last minus first timestamp) is at least the TO-BE lead time of the case:
\* the start event and the release event are never removed and every
\* inserted event is later than the start event, so that the difference that
\* computeLeadTimeDelta clamps at 0 is never negative on simulated logs.
C29_LeadTimeGrows ==
    \A r \in 1..Len(returned) :
        \A id \in caseIdsOf(returned[r].toBeEvents) :
            /\ endsKept(eventsOfCase(returned[r].toBeEvents, id),
                        eventsOfCase(returned[r].asIsEvents, id))
            /\ spanOf(eventsOfCase(returned[r].asIsEvents, id))
                  >= spanOf(eventsOfCase(returned[r].toBeEvents, id))

\* C29 happens: a log of MaxCases cases was returned with a case whose AS-IS
\* trace, without its gates and with a loop, has a greater lead time than
\* the TO-BE one.
C29_Witness ==
    /\ Len(returned) >= 1
    /\ args.nCases = MaxCases
    /\ args.pSkipGate = One
    /\ \E id \in caseIdsOf(returned[1].toBeEvents) :
          /\ countActivity(eventsOfCase(returned[1].asIsEvents, id), Zoom) >= 2
          /\ spanOf(eventsOfCase(returned[1].asIsEvents, id))
                > spanOf(eventsOfCase(returned[1].toBeEvents, id))

\* the events at the least instant of a case are of the activity first, those
\* at the greatest instant of one of the activities lasts
endsOf(evs, first, lasts) ==
    \A k \in 1..Len(evs) :
        /\ (\A j \in 1..Len(evs) : instant(evs[k]) <= instant(evs[j]))
              => evs[k].activity = first
        /\ (\A j \in 1..Len(evs) : instant(evs[k]) >= instant(evs[j]))
              => evs[k].activity \in lasts

endsOfLog(evs, first, lasts) ==
    \A id \in caseIdsOf(evs) : endsOf(eventsOfCase(evs, id), first, lasts)

\* C30: in both logs returned by simulatePairedLog, for any parameters, the
\* chronologically first event of every case is the start activity BE -
\* CATPart (pièce) and the chronologically last one the end activity Decision
\* - Archive/Release: no inserted event is ordered after the end activity.
C30_StartAndEnd ==
    \A r \in 1..Len(returned) :
        /\ endsOfLog(returned[r].toBeEvents, TO_BE.start, {TO_BE.end})
        /\ endsOfLog(returned[r].asIsEvents, TO_BE.start, {TO_BE.end})

\* what the program does: an AS-IS case ends with the end activity or with
\* the trigger event of the last repetition of the loop, and with the end
\* activity when the loop did not fire
C30_Observed ==
    \A r \in 1..Len(returned) :
        /\ endsOfLog(returned[r].toBeEvents, TO_BE.start, {TO_BE.end})
        /\ endsOfLog(returned[r].asIsEvents, TO_BE.start, {TO_BE.end, Zoom})
        /\ \A id \in caseIdsOf(returned[r].asIsEvents) :
              countActivity(eventsOfCase(returned[r].asIsEvents, id), Zoom) = 1
                  => endsOf(eventsOfCase(returned[r].asIsEvents, id), TO_BE.start, {TO_BE.end})

\* an AS-IS log of one case was returned whose last event, later than the
\* release, is a trigger event of the loop
C30_Witness ==
    /\ Len(returned) >= 1
    /\ args.nCases = 1
    /\ args.pSkipGate = Zero
    /\ args.pManual = Zero
    /\ args.pUncontrolledLoop = One
    /\ returned[1].asIsEvents[Len(returned[1].asIsEvents)].activity = Zoom
    /\ \E k \in 1..Len(returned[1].asIsEvents) :
          /\ returned[1].asIsEvents[k].activity = TO_BE.end
          /\ instant(returned[1].asIsEvents[k])
                < instant(returned[1].asIsEvents[Len(returned[1].asIsEvents)])

====
